---- MODULE Spec2Model ----
(***************************************************************************)
(* Model of the TradeIland scraping core:                                  *)
(*   scraping/auth/session_manager.py  (SessionManager, the session store) *)
(*   scraping/auth/authenticator.py    (TradeIslandAuthenticator)          *)
(* Both classes work on the same directory scraping/session: the file      *)
(* cookies.json is written by both of them, session_info.json only by the  *)
(* SessionManager.                                                         *)
(***************************************************************************)
EXTENDS Integers, Sequences, FiniteSets, TLC

VARIABLES
    now,                \* the wall clock read by datetime.now()
    session_timeout,    \* settings.auth.session_timeout, read once
    cookies_file,       \* scraping/session/cookies.json
    session_info_file,  \* scraping/session/session_info.json
    last_op,            \* the operation that made the last step
    last_arg,           \* the arguments and injected outcome of that operation
    ret,                \* what that operation returned
    playwright,         \* the engine driver started by start_browser
    browser,            \* self.browser
    context,            \* self.context
    page,               \* self.page
    context_cookies,    \* the cookies held by the browser context
    url,                \* self.page.url
    pc,                 \* position of the Authenticator's current call
    ops,                \* page operations performed by the latest call
    logins,             \* number of login() calls made on this Authenticator
    probes,             \* locators probed by the last candidate resolution
    marker_probes,      \* wait_for_selector calls on the login indicators
                        \* made by the latest call
    log,                \* field values of the log events of the latest call
    command,            \* the cli command this process runs, if any
    writers,            \* other processes inside a call of the
                        \* SessionManager
    loader              \* a load_session() whose steps other processes
                        \* interleave with

vars == <<now, session_timeout, cookies_file, session_info_file, last_op,
          last_arg, ret, playwright, browser, context, page, context_cookies,
          url, pc, ops, logins, probes, marker_probes, log, command, writers,
          loader>>

storeVars == <<cookies_file, session_info_file>>
authVars == <<playwright, browser, context, page, context_cookies, url, pc,
              ops, logins, probes, marker_probes>>
\* what no call of this process changes: the settings, the command line and
\* the progress of the other processes
fixedVars == <<session_timeout, command, writers, loader>>

(***************************************************************************)
(* Bounds of the model.                                                    *)
(***************************************************************************)
MaxTime == 2        \* the clock runs over 0..MaxTime
MaxTimeout == 1     \* session_timeout is drawn from 0..MaxTimeout
MaxSkew == 1        \* clock advance between the reads inside one call
MaxCookies == 1     \* longest cookie list
MaxLogins == 1      \* login() calls made on one Authenticator

(***************************************************************************)
(* Python values.                                                          *)
(***************************************************************************)
\* A cookie as the browser engine returns it: a dict with str keys.
Cookies == {[name |-> "sid", value |-> "a"]}

RECURSIVE SeqsUpTo(_, _)
SeqsUpTo(S, n) ==
    IF n = 0 THEN {<<>>}
    ELSE LET shorter == SeqsUpTo(S, n - 1)
         IN  shorter \cup {Append(s, e) : s \in shorter, e \in S}

CookieLists == SeqsUpTo(Cookies, MaxCookies)

\* dict keys: a str or an int (json.dump coerces an int key to a str)
PyStrKey(s) == [ty |-> "str", s |-> s]
PyIntKey(s) == [ty |-> "int", s |-> s]

\* user_info: None, or a dict given as its set of items
PyNone == [ty |-> "none", d |-> {}]
PyDict(d) == [ty |-> "dict", d |-> d]
UserInfos ==
    { PyNone,
      PyDict({}),
      PyDict({[k |-> PyStrKey("user"), v |-> "alice"]}),
      PyDict({[k |-> PyIntKey("7"), v |-> "alice"]}) }

\* bool(x) of a user_info value: None and the empty dict are falsy
Truthy(x) == x.ty = "dict" /\ x.d # {}

\* str values of the metadata: datetime.isoformat() output, or a str that
\* datetime.fromisoformat() rejects ('' is the default of dict.get)
isoformat(t) == [fmt |-> "iso8601", t |-> t]
EmptyStr == [fmt |-> "empty", t |-> 0]
fromisoformat(s) == [ok |-> s.fmt = "iso8601", t |-> s.t]

(***************************************************************************)
(* JSON documents and files.                                               *)
(***************************************************************************)
\* json.dump of a cookie list: an array of objects
DumpCookies(cookies) ==
    [j |-> "array",
     items |-> [i \in 1..Len(cookies) |->
                  [j |-> "object", name |-> cookies[i].name,
                   value |-> cookies[i].value]]]

\* json.load of a cookie document
LoadCookies(doc) ==
    [i \in 1..Len(doc.items) |->
        [name |-> doc.items[i].name, value |-> doc.items[i].value]]

\* json.dump of a dict: every key is written as a JSON string
DumpDict(x) == [j |-> "object", m |-> {[k |-> e.k.s, v |-> e.v] : e \in x.d}]
\* json.load of an object: every key comes back as a str
LoadDict(o) == PyDict({[k |-> PyStrKey(e.k), v |-> e.v] : e \in o.m})

\* a key that the metadata object does not have
NoKey == [fmt |-> "nokey", t |-> 0]
NoDict == [j |-> "nokey", m |-> {}]

\* json.dump of the session_info dict
DumpInfo(info) ==
    [j |-> "object",
     created_at |-> info.created_at,
     expires_at |-> info.expires_at,
     user_info |-> IF info.user_info.ty = "nokey" THEN NoDict
                   ELSE DumpDict(info.user_info),
     last_activity |-> info.last_activity]

\* json.load of the metadata document
LoadInfo(doc) ==
    [created_at |-> doc.created_at,
     expires_at |-> doc.expires_at,
     user_info |-> IF doc.user_info.j = "nokey"
                   THEN [ty |-> "nokey", d |-> {}]
                   ELSE LoadDict(doc.user_info),
     last_activity |-> doc.last_activity]

\* dict.get(key, default)
Get(value, default) ==
    IF value.fmt = "nokey" THEN default ELSE value
GetDict(value, default) ==
    IF value.ty = "nokey" THEN default ELSE value

\* A file is absent, holds a JSON document, or holds bytes json.load rejects
\* (an empty or truncated file).
NoDoc == [j |-> "none"]
Absent == [st |-> "absent", doc |-> NoDoc]
Corrupt == [st |-> "corrupt", doc |-> NoDoc]
JsonFile(doc) == [st |-> "json", doc |-> doc]

(***************************************************************************)
(* SessionManager (session_manager.py).  Every method is a function of the *)
(* two files, of the clock values it reads and of the outcome of its file  *)
(* operations; it yields the files it leaves behind and what it returns.   *)
(***************************************************************************)
\* str(e) of an exception that quotes no argument of the call that raised:
\* an error of the engine, of the file system, of json.load or of
\* fromisoformat, or the AttributeError of a call on self.page = None
EngineError == "engine error"

\* outcomes of the file operations of one call
SaveIO == {"ok", "cookies_open", "cookies_write", "info_open", "info_write"}
TouchIO == {"ok", "open", "write"}
ClearIO == {"ok", "unlink_cookies", "unlink_info"}

\* is_session_valid() that already rejects a session at its expiry instant
is_session_valid_strict(sif, t) ==
    IF sif.st # "json" THEN FALSE
    ELSE LET session_info == LoadInfo(sif.doc)
             expires_at == fromisoformat(Get(session_info.expires_at, EmptyStr))
         IN  expires_at.ok /\ ~(t >= expires_at.t)

\* is_session_valid(): t is the value of datetime.now()
is_session_valid(sif, t) ==
    IF sif.st = "absent" THEN FALSE
    ELSE IF sif.st = "corrupt" THEN FALSE           \* json.load raises
    ELSE LET session_info == LoadInfo(sif.doc)
             expires_at == fromisoformat(Get(session_info.expires_at, EmptyStr))
         IN  IF ~expires_at.ok THEN FALSE            \* ValueError
             ELSE IF t > expires_at.t THEN FALSE
             ELSE TRUE

\* what is_session_valid() logs: error=str(e) of the exception it caught
\* (json.load, or fromisoformat of expires_at); a missing or an expired
\* session logs no field
ValidLog(sif) ==
    IF sif.st = "corrupt" THEN {EngineError}
    ELSE IF sif.st = "json"
            /\ ~fromisoformat(Get(LoadInfo(sif.doc).expires_at, EmptyStr)).ok
    THEN {EngineError}
    ELSE {}

\* save_session(cookies, user_info): t1, t2, t3 are the three reads of
\* datetime.now() for created_at, expires_at and last_activity
save_session(cf, sif, cookies, user_info, timeout, t1, t2, t3, io) ==
    IF io = "cookies_open"
    THEN [cookies_file |-> cf, session_info_file |-> sif, raised |-> TRUE]
    ELSE IF io = "cookies_write"
    THEN [cookies_file |-> Corrupt, session_info_file |-> sif, raised |-> TRUE]
    ELSE LET written == JsonFile(DumpCookies(cookies))
             session_info ==
                 [created_at |-> isoformat(t1),
                  expires_at |-> isoformat(t2 + timeout),
                  user_info |-> IF Truthy(user_info) THEN user_info
                                ELSE PyDict({}),
                  last_activity |-> isoformat(t3)]
         IN  IF io = "info_open"
             THEN [cookies_file |-> written, session_info_file |-> sif,
                   raised |-> TRUE]
             ELSE IF io = "info_write"
             THEN [cookies_file |-> written, session_info_file |-> Corrupt,
                   raised |-> TRUE]
             ELSE [cookies_file |-> written,
                   session_info_file |-> JsonFile(DumpInfo(session_info)),
                   raised |-> FALSE]

\* what load_session() returns
NoInfo == [created_at |-> NoKey, expires_at |-> NoKey,
           user_info |-> [ty |-> "nokey", d |-> {}], last_activity |-> NoKey]
None == [some |-> FALSE, cookies |-> <<>>, session_info |-> NoInfo]

\* load_session() that never reads cookies.json
load_session_no_cookies(cf, sif, t) ==
    IF ~is_session_valid(sif, t) THEN None
    ELSE [some |-> TRUE, cookies |-> <<>>, session_info |-> LoadInfo(sif.doc)]

\* load_session() that reads the two files without asking is_session_valid
load_session_skips_validity(cf, sif, t) ==
    IF cf.st = "corrupt" \/ sif.st = "corrupt" THEN None
    ELSE [some |-> TRUE,
          cookies |-> IF cf.st = "absent" THEN <<>> ELSE LoadCookies(cf.doc),
          session_info |-> IF sif.st = "absent" THEN NoInfo
                           ELSE LoadInfo(sif.doc)]

\* load_session(): t is the clock value read by is_session_valid
load_session(cf, sif, t) ==
    IF ~is_session_valid(sif, t) THEN None
    ELSE IF cf.st = "corrupt" THEN None              \* json.load raises
    ELSE [some |-> TRUE,
          cookies |-> IF cf.st = "absent" THEN <<>> ELSE LoadCookies(cf.doc),
          session_info |-> LoadInfo(sif.doc)]

\* update_last_activity() that also moves the expiry (a sliding window)
update_last_activity_sliding(sif, t, io) ==
    IF sif.st # "json" THEN sif
    ELSE JsonFile(DumpInfo([LoadInfo(sif.doc) EXCEPT
                               !.last_activity = isoformat(t),
                               !.expires_at = isoformat(t + 1)]))

\* update_last_activity() that writes the file also when there was none
update_last_activity_creates(sif, t, io) ==
    IF sif.st = "corrupt" THEN sif
    ELSE LET session_info ==
                 [(IF sif.st = "absent" THEN NoInfo ELSE LoadInfo(sif.doc))
                     EXCEPT !.last_activity = isoformat(t)]
         IN  IF io = "open" THEN sif
             ELSE IF io = "write" THEN Corrupt
             ELSE JsonFile(DumpInfo(session_info))

\* update_last_activity(): t is the value of datetime.now()
update_last_activity(sif, t, io) ==
    IF sif.st = "absent" THEN sif
    ELSE IF sif.st = "corrupt" THEN sif              \* json.load raises
    ELSE LET session_info ==
                 [LoadInfo(sif.doc) EXCEPT !.last_activity = isoformat(t)]
         IN  IF io = "open" THEN sif
             ELSE IF io = "write" THEN Corrupt
             ELSE JsonFile(DumpInfo(session_info))

\* clear_session() that removes cookies.json only
clear_session_keeps_info(cf, sif, io) ==
    [cookies_file |-> Absent, session_info_file |-> sif, raised |-> FALSE]

\* clear_session(): an exception of unlink is logged and swallowed
clear_session(cf, sif, io) ==
    IF cf.st # "absent" /\ io = "unlink_cookies"
    THEN [cookies_file |-> cf, session_info_file |-> sif, raised |-> FALSE]
    ELSE IF sif.st # "absent" /\ io = "unlink_info"
    THEN [cookies_file |-> Absent, session_info_file |-> sif,
          raised |-> FALSE]
    ELSE [cookies_file |-> Absent, session_info_file |-> Absent,
          raised |-> FALSE]

\* what get_session_status() returns; keys is the set of keys of the dict
StatusInvalid(status, keys) ==
    [is_valid |-> FALSE, status |-> status, keys |-> keys,
     created_at |-> NoKey, expires_at |-> NoKey, last_activity |-> NoKey,
     remaining_seconds |-> 0, user_info |-> PyDict({})]

Max(a, b) == IF a >= b THEN a ELSE b

\* get_session_status() that reports expires_at - now as it comes
get_session_status_unclamped(sif, t1, t2) ==
    IF ~is_session_valid(sif, t1)
    THEN StatusInvalid("expired_or_missing", {"is_valid", "status"})
    ELSE LET session_info == LoadInfo(sif.doc)
             created_at == fromisoformat(Get(session_info.created_at, EmptyStr))
             expires_at == fromisoformat(Get(session_info.expires_at, EmptyStr))
             last_activity ==
                 fromisoformat(Get(session_info.last_activity, EmptyStr))
         IN  IF ~created_at.ok \/ ~expires_at.ok \/ ~last_activity.ok
             THEN StatusInvalid("error", {"is_valid", "status", "error"})
             ELSE [is_valid |-> TRUE, status |-> "active",
                   keys |-> {"is_valid", "status", "created_at", "expires_at",
                             "last_activity", "remaining_seconds", "user_info"},
                   created_at |-> isoformat(created_at.t),
                   expires_at |-> isoformat(expires_at.t),
                   last_activity |-> isoformat(last_activity.t),
                   remaining_seconds |-> expires_at.t - t2,
                   user_info |-> GetDict(session_info.user_info, PyDict({}))]

\* get_session_status() that trusts the metadata without asking
\* is_session_valid
get_session_status_unchecked(sif, t1, t2) ==
    IF sif.st # "json"
    THEN StatusInvalid("expired_or_missing", {"is_valid", "status"})
    ELSE LET session_info == LoadInfo(sif.doc)
             created_at == fromisoformat(Get(session_info.created_at, EmptyStr))
             expires_at == fromisoformat(Get(session_info.expires_at, EmptyStr))
             last_activity ==
                 fromisoformat(Get(session_info.last_activity, EmptyStr))
         IN  IF ~created_at.ok \/ ~expires_at.ok \/ ~last_activity.ok
             THEN StatusInvalid("error", {"is_valid", "status", "error"})
             ELSE [is_valid |-> TRUE, status |-> "active",
                   keys |-> {"is_valid", "status", "created_at", "expires_at",
                             "last_activity", "remaining_seconds", "user_info"},
                   created_at |-> isoformat(created_at.t),
                   expires_at |-> isoformat(expires_at.t),
                   last_activity |-> isoformat(last_activity.t),
                   remaining_seconds |-> Max(0, expires_at.t - t2),
                   user_info |-> GetDict(session_info.user_info, PyDict({}))]

\* get_session_status(): t1 is the clock value read by is_session_valid,
\* t2 the later value of now = datetime.now()
get_session_status(sif, t1, t2) ==
    IF ~is_session_valid(sif, t1)
    THEN StatusInvalid("expired_or_missing", {"is_valid", "status"})
    ELSE LET session_info == LoadInfo(sif.doc)
             created_at == fromisoformat(Get(session_info.created_at, EmptyStr))
             expires_at == fromisoformat(Get(session_info.expires_at, EmptyStr))
             last_activity ==
                 fromisoformat(Get(session_info.last_activity, EmptyStr))
         IN  IF ~created_at.ok \/ ~expires_at.ok \/ ~last_activity.ok
             THEN StatusInvalid("error", {"is_valid", "status", "error"})
             ELSE [is_valid |-> TRUE, status |-> "active",
                   keys |-> {"is_valid", "status", "created_at", "expires_at",
                             "last_activity", "remaining_seconds", "user_info"},
                   created_at |-> isoformat(created_at.t),
                   expires_at |-> isoformat(expires_at.t),
                   last_activity |-> isoformat(last_activity.t),
                   remaining_seconds |-> Max(0, expires_at.t - t2),
                   user_info |-> GetDict(session_info.user_info, PyDict({}))]

(***************************************************************************)
(* TradeIslandAuthenticator (authenticator.py): candidate resolution and   *)
(* the helpers of login().                                                 *)
(***************************************************************************)
\* lengths of the selector lists
NumEmailSelectors == 7
NumPasswordSelectors == 7
NumLoginSelectors == 8
NumLoginIndicators == 5
NumSearchSelectors == 6
NumSearchButtonSelectors == 3

\* what the page answers to each probe of a list of n selectors:
\* wait_for_selector returns an element, raises TimeoutError, or raises the
\* error of a broken connection to the engine ("crash").  The pages drawn:
\* no selector matches, only the first, only the last, every one, every one
\* but the first, an engine that is gone, and an engine that fails the first
\* probe and answers the later ones.
Answers(n) ==
    { [i \in 1..n |-> "timeout"],
      [i \in 1..n |-> IF i = 1 THEN "element" ELSE "timeout"],
      [i \in 1..n |-> IF i = n THEN "element" ELSE "timeout"],
      [i \in 1..n |-> "element"],
      [i \in 1..n |-> IF i >= 2 THEN "element" ELSE "timeout"],
      [i \in 1..n |-> "crash"],
      [i \in 1..n |-> IF i = 1 THEN "crash" ELSE "element"] }

\* the loop "for selector in selectors: try wait_for_selector ... break":
\* the selectors probed from index i on, and the index found (0: none)
\* the loop that gives up at the first selector that does not match
ResolveFrom_gives_up(matches, i, n) ==
    IF i > n THEN [found |-> 0, tried |-> <<>>]
    ELSE IF matches[i] = "element" THEN [found |-> i, tried |-> <<i>>]
    ELSE [found |-> 0, tried |-> <<i>>]

\* the loop without its break: every selector is probed and the element of
\* the last one that matched is kept
RECURSIVE ResolveFrom_no_break(_, _, _)
ResolveFrom_no_break(matches, i, n) ==
    IF i > n THEN [found |-> 0, tried |-> <<>>]
    ELSE LET rest == ResolveFrom_no_break(matches, i + 1, n)
         IN  [found |-> IF rest.found # 0 THEN rest.found
                        ELSE IF matches[i] = "element" THEN i ELSE 0,
              tried |-> <<i>> \o rest.tried]

RECURSIVE ResolveFrom(_, _, _)
ResolveFrom(matches, i, n) ==
    IF i > n THEN [found |-> 0, tried |-> <<>>]
    ELSE IF matches[i] = "element" THEN [found |-> i, tried |-> <<i>>]
    ELSE LET rest == ResolveFrom(matches, i + 1, n)       \* except: continue
         IN  [found |-> rest.found, tried |-> <<i>> \o rest.tried]

\* the loop run from its first selector, for every length of list in the
\* code and every sequence of answers considered, computed once
Resolutions ==
    [n \in {NumEmailSelectors, NumPasswordSelectors, NumLoginSelectors,
            NumLoginIndicators, NumSearchSelectors, NumSearchButtonSelectors}
        |-> [matches \in Answers(n) |-> ResolveFrom(matches, 1, n)]]

\* one resolution: the list, the index of the selector whose element is
\* kept (0: none), the selectors probed in the order of the probes, and
\* what the page answered
Resolve(list, matches, n) ==
    LET r == Resolutions[n][matches]
    IN  [list |-> list, found |-> r.found, tried |-> r.tried,
         matches |-> matches]

NoProbes == [list |-> "none", found |-> 0, tried |-> <<>>, matches |-> <<>>]

\* page.url, as far as _is_logged_in looks at it: whether it contains
\* "/login" and whether it contains settings.target_site.base_url
URLs == [login : BOOLEAN, base : BOOLEAN]

\* _is_logged_in() that trusts the URL alone and ignores what the probes find
_is_logged_in_url_only(current_url, matches) ==
    IF ~current_url.login /\ current_url.base
    THEN [result |-> TRUE, probes |-> NoProbes]
    ELSE [result |-> FALSE,
          probes |-> Resolve("indicator", matches, NumLoginIndicators)]

\* _is_logged_in() that probes the indicators before it looks at the URL
_is_logged_in_no_short_circuit(current_url, matches) ==
    LET r == Resolve("indicator", matches, NumLoginIndicators)
    IN  [result |-> (~current_url.login /\ current_url.base) \/ r.found # 0,
         probes |-> r]

\* _is_logged_in()
_is_logged_in(current_url, matches) ==
    IF ~current_url.login /\ current_url.base
    THEN [result |-> TRUE, probes |-> NoProbes]
    ELSE LET r == Resolve("indicator", matches, NumLoginIndicators)
         IN  [result |-> r.found # 0, probes |-> r]

\* _save_session(): writes context.cookies() to cookies.json and nothing
\* else; every exception is logged and swallowed
SessionIO == {"ok", "open", "write"}
_save_session(cf, cookies, io) ==
    IF io = "open" THEN cf
    ELSE IF io = "write" THEN Corrupt
    ELSE JsonFile(DumpCookies(cookies))

\* _load_session(): the cookies added to the new context; every exception
\* is logged and swallowed
_load_session(cf, add) ==
    IF cf.st = "absent" THEN <<>>
    ELSE IF cf.st = "corrupt" THEN <<>>              \* json.load raises
    ELSE IF add = "raise" THEN <<>>                  \* add_cookies raises
    ELSE LoadCookies(cf.doc)

(***************************************************************************)
(* The calls of the SessionManager as steps of the store.                  *)
(***************************************************************************)
NoArg == [cookies |-> <<>>, user_info |-> PyNone, io |-> "ok", t |-> 0,
          before |-> "none"]
NoStatus == StatusInvalid("none", {})
NoRet == [raised |-> FALSE, valid |-> FALSE, load |-> None,
          status |-> NoStatus, result |-> "none"]

\* session_manager.save_session(cookies, user_info); the exception it
\* raises again is logged with error=str(e)
SaveSession ==
    \E cookies \in CookieLists, user_info \in UserInfos, io \in SaveIO,
       d1 \in 0..MaxSkew, d2 \in 0..MaxSkew :
        /\ d1 + d2 <= MaxSkew
        /\ now + d1 + d2 <= MaxTime
        \* a call that fails on cookies.json never reads the clock; one that
        \* fails on session_info.json stores none of the values it read, d1
        \* is the time that passed between its reads
        /\ io \in {"cookies_open", "cookies_write"} => d1 = 0
        /\ io # "ok" => d2 = 0
        /\ LET r == save_session(cookies_file, session_info_file, cookies,
                                 user_info, session_timeout,
                                 now, now + d1, now + d1 + d2, io)
           IN  /\ cookies_file' = r.cookies_file
               /\ session_info_file' = r.session_info_file
               /\ ret' = [NoRet EXCEPT !.raised = r.raised]
               /\ log' = IF r.raised THEN {EngineError} ELSE {}
        /\ now' = now + d1 + d2
        /\ last_op' = "save"
        /\ last_arg' = [cookies |-> cookies, user_info |-> user_info,
                        io |-> io, t |-> now,
                        before |-> session_info_file.st]
        /\ UNCHANGED <<fixedVars, authVars>>

\* session_manager.load_session(); the exception of is_session_valid() is
\* logged there, that of reading cookies.json here
LoadSession ==
    /\ ret' = [NoRet EXCEPT
                 !.load = load_session(cookies_file, session_info_file, now)]
    /\ log' = IF is_session_valid(session_info_file, now)
              THEN IF cookies_file.st = "corrupt" THEN {EngineError} ELSE {}
              ELSE ValidLog(session_info_file)
    /\ last_op' = "load"
    /\ last_arg' = [NoArg EXCEPT !.t = now]
    /\ UNCHANGED <<now, fixedVars, storeVars, authVars>>

\* session_manager.is_session_valid()
IsSessionValid ==
    /\ ret' = [NoRet EXCEPT !.valid = is_session_valid(session_info_file, now)]
    /\ log' = ValidLog(session_info_file)
    /\ last_op' = "valid"
    /\ last_arg' = [NoArg EXCEPT !.t = now]
    /\ UNCHANGED <<now, fixedVars, storeVars, authVars>>

\* session_manager.update_last_activity(); the exception of json.load, of
\* open(..., 'w') or of the write is logged and swallowed
UpdateLastActivity ==
    \E io \in TouchIO :
        /\ session_info_file' = update_last_activity(session_info_file, now, io)
        /\ log' = IF session_info_file.st = "corrupt"
                      \/ (session_info_file.st = "json" /\ io # "ok")
                   THEN {EngineError} ELSE {}
        /\ ret' = NoRet
        /\ last_op' = "touch"
        /\ last_arg' = [NoArg EXCEPT !.io = io, !.t = now,
                                     !.before = session_info_file.st]
        /\ UNCHANGED <<now, fixedVars, cookies_file, authVars>>

\* session_manager.clear_session()
ClearSession ==
    \E io \in ClearIO :
        /\ LET r == clear_session(cookies_file, session_info_file, io)
           IN  /\ cookies_file' = r.cookies_file
               /\ session_info_file' = r.session_info_file
               /\ ret' = [NoRet EXCEPT !.raised = r.raised]
               \* the unlink that raised left its file where it was
               /\ log' = IF r.cookies_file # Absent
                             \/ r.session_info_file # Absent
                          THEN {EngineError} ELSE {}
        /\ last_op' = "clear"
        /\ last_arg' = [NoArg EXCEPT !.io = io, !.t = now,
                                     !.before = session_info_file.st]
        /\ UNCHANGED <<now, fixedVars, authVars>>

\* get_session_status() that records the call as an activity
GetSessionStatus_touches ==
    \E d \in 0..MaxSkew :
        /\ now + d <= MaxTime
        /\ LET status == get_session_status(session_info_file, now, now + d)
           IN  /\ ret' = [NoRet EXCEPT !.status = status]
               /\ log' = ValidLog(session_info_file)
                          \cup (IF status.status = "error"
                                THEN {EngineError} ELSE {})
        /\ session_info_file' =
               update_last_activity(session_info_file, now + d, "ok")
        /\ now' = now + d
        /\ last_op' = "status"
        /\ last_arg' = [NoArg EXCEPT !.t = now]
        /\ UNCHANGED <<fixedVars, cookies_file, authVars>>

\* session_manager.get_session_status()
GetSessionStatus ==
    \E d \in 0..MaxSkew :
        /\ now + d <= MaxTime
        /\ LET status == get_session_status(session_info_file, now, now + d)
           IN  /\ ret' = [NoRet EXCEPT !.status = status]
               /\ log' = ValidLog(session_info_file)
                          \cup (IF status.status = "error"
                                THEN {EngineError} ELSE {})
        /\ now' = now + d
        /\ last_op' = "status"
        /\ last_arg' = [NoArg EXCEPT !.t = now]
        /\ UNCHANGED <<fixedVars, storeVars, authVars>>

\* time passes between two calls of the store; the Authenticator never
\* reads the clock, so time passes before it is started
Tick ==
    /\ now < MaxTime
    /\ pc = "new"
    /\ now' = now + 1
    /\ last_op' = "tick"
    /\ last_arg' = NoArg
    /\ ret' = NoRet
    /\ UNCHANGED <<fixedVars, storeVars, authVars, log>>

(***************************************************************************)
(* The calls of the Authenticator.  login() is a sequence of steps, pc is  *)
(* its position; the page answers each step as it likes.                   *)
(***************************************************************************)
\* the engine call of start_browser() that raises: add_cookies raises inside
\* _load_session(), which swallows the exception; the others end the call
StartFail ==
    {"none", "start", "launch", "new_context", "add_cookies", "new_page"}

\* login(email, password): the credentials of the call
Email == "user@example.com"
Password == "hunter2"

CloseFail == {"none", "page", "context", "browser"}

\* the calls of the class test nothing before they act: each of them can be
\* made whenever no other call of the object is under way
Resting == pc \in {"new", "failed", "idle", "closed"}

\* the URL of a page that context.new_page() has just made
BlankPage == [login |-> FALSE, base |-> FALSE]

\* start_browser(): fail names the engine call that raises, old holds the
\* attributes of the object before the call; an attribute is assigned when
\* the call that makes its value has returned
start_browser(cf, fail, old) ==
    LET noContext == fail \in {"start", "launch", "new_context"}
    IN  [playwright |-> IF fail = "start" THEN old.playwright ELSE "open",
         browser |-> IF fail \in {"start", "launch"} THEN old.browser
                     ELSE "open",
         context |-> IF noContext THEN old.context ELSE "open",
         context_cookies |->
             IF noContext THEN old.context_cookies
             ELSE _load_session(cf, IF fail = "add_cookies" THEN "raise"
                                    ELSE "ok"),
         page |-> IF fail \in {"none", "add_cookies"} THEN "open"
                  ELSE old.page,
         url |-> IF fail \in {"none", "add_cookies"} THEN BlankPage
                 ELSE old.url,
         raised |-> fail \notin {"none", "add_cookies"}]

\* the log of start_browser(): _load_session() logs the file it restored or
\* the text of its exception, start_browser() the text of the exception it
\* raises again
StartLog(cf, fail) ==
    (IF fail \in {"start", "launch", "new_context"} \/ cf.st = "absent"
     THEN {}
     ELSE IF cf.st = "corrupt" \/ fail = "add_cookies" THEN {EngineError}
     ELSE {"session_file"})
    \cup (IF fail \notin {"none", "add_cookies"} THEN {EngineError} ELSE {})

\* start_browser() can be called on an Authenticator in any state between
\* two calls: it makes new handles and leaves those it replaces as they are
StartBrowser ==
    /\ Resting
    /\ \E fail \in StartFail :
        \* add_cookies is called when cookies.json was read
        /\ fail = "add_cookies" => cookies_file.st = "json"
        /\ LET r == start_browser(cookies_file, fail,
                                  [playwright |-> playwright,
                                   browser |-> browser, context |-> context,
                                   context_cookies |-> context_cookies,
                                   page |-> page, url |-> url])
           IN  /\ playwright' = r.playwright
               /\ browser' = r.browser
               /\ context' = r.context
               /\ page' = r.page
               /\ context_cookies' = r.context_cookies
               /\ url' = r.url
               /\ ret' = [NoRet EXCEPT !.raised = r.raised]
               /\ pc' = IF r.raised THEN "failed" ELSE "idle"
        /\ last_op' = "start_browser"
        /\ last_arg' = [NoArg EXCEPT !.io = fail, !.t = now]
        /\ log' = StartLog(cookies_file, fail)
    /\ ops' = <<>>
    /\ probes' = NoProbes
    /\ marker_probes' = 0
    /\ UNCHANGED <<now, fixedVars, storeVars, logins>>

\* the state of a handle after close_browser(): closed when it exists and
\* no earlier close raised
Closed(handle, reached) ==
    IF handle # "none" /\ reached THEN "closed" ELSE handle

\* close_browser() without the tests "if self.page", "if self.context",
\* "if self.browser": close() of a handle that was never created raises
close_browser_unguarded(p, c, b, fail) ==
    LET pageRaises == p = "none" \/ fail = "page"
        contextRaises == c = "none" \/ fail = "context"
        browserRaises == b = "none" \/ fail = "browser"
    IN  [page |-> Closed(p, ~pageRaises),
         context |-> Closed(c, ~pageRaises /\ ~contextRaises),
         browser |-> Closed(b, ~pageRaises /\ ~contextRaises
                               /\ ~browserRaises)]

\* close_browser(): fail names the close() that raises; the exception is
\* logged and swallowed, and the closes after it are skipped
close_browser(p, c, b, fail) ==
    LET pageRaises == p # "none" /\ fail = "page"
        contextRaises == c # "none" /\ fail = "context"
    IN  [page |-> Closed(p, ~pageRaises),
         context |-> Closed(c, ~pageRaises /\ ~contextRaises),
         browser |-> Closed(b, ~pageRaises /\ ~contextRaises
                               /\ ~(b # "none" /\ fail = "browser"))]

\* close_browser() can be called on an Authenticator in any state between
\* two calls: never started, started in part, in use, closed before
CloseBrowser ==
    /\ pc \in {"new", "failed", "idle", "closed"}
    /\ \E fail \in CloseFail :
        /\ LET r == close_browser(page, context, browser, fail)
           IN  /\ page' = r.page
               /\ context' = r.context
               /\ browser' = r.browser
        /\ pc' = "closed"
        /\ ops' = <<>>
        /\ probes' = NoProbes
        /\ ret' = NoRet
        /\ last_op' = "close_browser"
        /\ last_arg' = [NoArg EXCEPT !.io = fail]
        /\ marker_probes' = 0
        /\ log' = IF (fail = "page" /\ page # "none")
                      \/ (fail = "context" /\ context # "none")
                      \/ (fail = "browser" /\ browser # "none")
                   THEN {EngineError} ELSE {}
        /\ UNCHANGED <<now, fixedVars, storeVars, playwright,
                       context_cookies, url, logins>>

\* the step ended in the handler of login(): its last engine call raised
Raised(result, performed) ==
    /\ result = "False"
    /\ performed[Len(performed)]
           \in {"settle", "fill_email", "fill_password", "click_login"}

\* str(e) as the handler of login() logs it: the engine's text of a failed
\* fill can quote the value that was to be filled in
ErrorTexts(performed) ==
    LET call == performed[Len(performed)]
    IN  IF call = "fill_email" THEN {EngineError, Email}
        ELSE IF call = "fill_password" THEN {EngineError, Password}
        ELSE {EngineError}

\* the probes of the login indicators made by the resolution of this step
MarkerProbes(resolution) ==
    IF resolution.list = "indicator" THEN Len(resolution.tried) ELSE 0

\* a step of login(): next is the position reached, "idle" when the call
\* returns result
LoginStep(next, result, performed) ==
    /\ pc' = next
    /\ ops' = ops \o performed
    /\ ret' = [NoRet EXCEPT !.result = result]
    /\ last_op' = "login"
    /\ last_arg' = NoArg
    /\ marker_probes' = marker_probes + MarkerProbes(probes')
    /\ IF Raised(result, performed)
       THEN \E text \in ErrorTexts(performed) : log' = log \cup {text}
       ELSE log' = log
    /\ UNCHANGED <<now, fixedVars, playwright, browser, context, page,
                   logins>>

Outcomes == {"ok", "raise"}

\* login(): page.goto(login_url) and the wait for network idle
LoginNavigate ==
    /\ Resting
    /\ logins < MaxLogins
    /\ logins' = logins + 1
    /\ \E goto \in Outcomes, settle \in Outcomes, landing \in URLs :
        \* a page that is closed raises; self.page = None raises
        \* AttributeError before any call of the engine
        /\ page # "open" => goto = "raise"
        /\ goto = "raise" => (settle = "ok" /\ landing = url)
        /\ ops' = IF page = "none" THEN <<>>
                  ELSE IF goto = "raise" THEN <<"goto">>
                  ELSE <<"goto", "settle">>
        /\ url' = landing
        /\ probes' = NoProbes
        /\ IF goto = "raise" \/ settle = "raise"
           THEN pc' = "idle" /\ ret' = [NoRet EXCEPT !.result = "False"]
           ELSE pc' = "check" /\ ret' = NoRet
        /\ last_op' = "login"
        /\ last_arg' = NoArg
        /\ marker_probes' = 0
        /\ log' = IF goto = "raise" THEN {EngineError}
                   ELSE IF settle = "raise" THEN {"login_url", EngineError}
                   ELSE {"login_url"}
        /\ UNCHANGED <<now, fixedVars, storeVars, playwright, browser,
                       context, page, context_cookies>>

\* login() whose first _is_logged_in() reloads the page
LoginCheck_navigates ==
    /\ pc = "check"
    /\ \E matches \in Answers(NumLoginIndicators), landing \in URLs :
        /\ LET r == _is_logged_in(landing, matches)
           IN  /\ probes' = r.probes
               /\ IF r.result
                  THEN LoginStep("idle", "True", <<"is_logged_in">>)
                  ELSE LoginStep("email", "none", <<"is_logged_in">>)
        /\ url' = landing
        /\ UNCHANGED <<storeVars, context_cookies>>

\* login(): the first _is_logged_in()
LoginCheck ==
    /\ pc = "check"
    /\ \E matches \in Answers(NumLoginIndicators) :
        /\ LET r == _is_logged_in(url, matches)
           IN  /\ probes' = r.probes
               /\ IF r.result
                  THEN LoginStep("idle", "True", <<"is_logged_in">>)
                  ELSE LoginStep("email", "none", <<"is_logged_in">>)
        /\ UNCHANGED <<storeVars, context_cookies, url>>

\* login() that goes on to the fill although no selector of the list matched
LoginField_continues(at, list, n, fill, next) ==
    /\ pc = at
    /\ \E matches \in Answers(n) :
        /\ probes' = Resolve(list, matches, n)
        /\ LoginStep(next, "none", <<"resolve_" \o list, fill>>)
        /\ UNCHANGED <<storeVars, context_cookies, url>>

\* login(): a field is resolved and filled
LoginField(at, list, n, fill, next) ==
    /\ pc = at
    /\ \E matches \in Answers(n), outcome \in Outcomes :
        /\ LET r == Resolve(list, matches, n)
           IN  /\ probes' = r
               /\ r.found = 0 => outcome = "ok"
               /\ IF r.found = 0
                  THEN LoginStep("idle", "False", <<"resolve_" \o list>>)
                  ELSE IF outcome = "raise"
                  THEN LoginStep("idle", "False", <<"resolve_" \o list, fill>>)
                  ELSE LoginStep(next, "none", <<"resolve_" \o list, fill>>)
        /\ UNCHANGED <<storeVars, context_cookies, url>>

\* login() that goes from the e-mail field straight to the login button
LoginEmail_skips_password ==
    LoginField("email", "email", NumEmailSelectors, "fill_email", "submit")

LoginEmail ==
    LoginField("email", "email", NumEmailSelectors, "fill_email", "password")

LoginPassword ==
    LoginField("password", "password", NumPasswordSelectors, "fill_password",
               "submit")

\* login() that waits for network idle a second time after the click
LoginSubmit_settles_twice ==
    /\ pc = "submit"
    /\ \E matches \in Answers(NumLoginSelectors), landing \in URLs,
          set_cookies \in CookieLists :
        /\ LET r == Resolve("login", matches, NumLoginSelectors)
           IN  /\ probes' = r
               /\ r.found = 0 => (landing = url /\ set_cookies = context_cookies)
               /\ url' = landing
               /\ context_cookies' = set_cookies
               /\ IF r.found = 0
                  THEN LoginStep("idle", "False", <<"resolve_login">>)
                  ELSE LoginStep("verify", "none",
                                 <<"resolve_login", "click_login", "settle",
                                   "settle">>)
        /\ UNCHANGED storeVars

\* login(): the login button is resolved and clicked, then the wait for
\* network idle; the site answers the click with a page and with cookies
LoginSubmit ==
    /\ pc = "submit"
    /\ \E matches \in Answers(NumLoginSelectors), click \in Outcomes,
          settle \in Outcomes, landing \in URLs, set_cookies \in CookieLists :
        /\ LET r == Resolve("login", matches, NumLoginSelectors)
               clicked == r.found # 0 /\ click = "ok"
           IN  /\ probes' = r
               /\ ~clicked => (settle = "ok" /\ landing = url
                               /\ set_cookies = context_cookies)
               /\ r.found = 0 => click = "ok"
               /\ url' = landing
               /\ context_cookies' = set_cookies
               /\ IF r.found = 0
                  THEN LoginStep("idle", "False", <<"resolve_login">>)
                  ELSE IF click = "raise"
                  THEN LoginStep("idle", "False",
                                 <<"resolve_login", "click_login">>)
                  ELSE IF settle = "raise"
                  THEN LoginStep("idle", "False",
                                 <<"resolve_login", "click_login", "settle">>)
                  ELSE LoginStep("verify", "none",
                                 <<"resolve_login", "click_login", "settle">>)
        /\ UNCHANGED storeVars

\* the end of a login() that called _save_session(): io is the outcome of
\* the file operations of the save
LoginSaved(result, io) ==
    /\ pc' = "idle"
    /\ ops' = ops \o <<"is_logged_in", "save_session">>
    /\ ret' = [NoRet EXCEPT !.result = result]
    /\ last_op' = "login"
    /\ last_arg' = [NoArg EXCEPT !.io = io]
    /\ marker_probes' = marker_probes + MarkerProbes(probes')
    /\ log' = log \cup {IF io = "ok" THEN "session_file" ELSE EngineError}
    /\ UNCHANGED <<now, fixedVars, playwright, browser, context, page,
                   logins>>

\* login() that starts over at the e-mail field when the verification fails
LoginVerify_retries ==
    /\ pc = "verify"
    /\ \E matches \in Answers(NumLoginIndicators), io \in SessionIO :
        /\ LET r == _is_logged_in(url, matches)
           IN  /\ probes' = r.probes
               /\ ~r.result => io = "ok"
               /\ IF r.result
                  THEN /\ cookies_file' =
                              _save_session(cookies_file, context_cookies, io)
                       /\ LoginSaved("True", io)
                  ELSE /\ cookies_file' = cookies_file
                       /\ LoginStep("email", "none", <<"is_logged_in">>)
        /\ UNCHANGED <<session_info_file, context_cookies, url>>

\* login() in which an exception of _save_session() reaches the handler of
\* login() and makes it return False
LoginVerify_save_error_fails ==
    /\ pc = "verify"
    /\ \E matches \in Answers(NumLoginIndicators), io \in SessionIO :
        /\ LET r == _is_logged_in(url, matches)
           IN  /\ probes' = r.probes
               /\ ~r.result => io = "ok"
               /\ IF r.result
                  THEN /\ cookies_file' =
                              _save_session(cookies_file, context_cookies, io)
                       /\ LoginSaved(IF io = "ok" THEN "True" ELSE "False",
                                     io)
                  ELSE /\ cookies_file' = cookies_file
                       /\ LoginStep("idle", "False", <<"is_logged_in">>)
        /\ UNCHANGED <<session_info_file, context_cookies, url>>

\* login() that saves the session before it looks at the verification
LoginVerify_saves_unverified ==
    /\ pc = "verify"
    /\ \E matches \in Answers(NumLoginIndicators), io \in SessionIO :
        /\ LET r == _is_logged_in(url, matches)
           IN  /\ probes' = r.probes
               /\ cookies_file' =
                      _save_session(cookies_file, context_cookies, io)
               /\ IF r.result
                  THEN LoginStep("idle", "True",
                                 <<"is_logged_in", "save_session">>)
                  ELSE LoginStep("idle", "False",
                                 <<"is_logged_in", "save_session">>)
        /\ UNCHANGED <<session_info_file, context_cookies, url>>

\* login(): the second _is_logged_in() and, when it holds, _save_session()
LoginVerify ==
    /\ pc = "verify"
    /\ \E matches \in Answers(NumLoginIndicators), io \in SessionIO :
        /\ LET r == _is_logged_in(url, matches)
           IN  /\ probes' = r.probes
               /\ ~r.result => io = "ok"
               /\ IF r.result
                  THEN /\ cookies_file' =
                              _save_session(cookies_file, context_cookies, io)
                       /\ LoginSaved("True", io)
                  ELSE /\ cookies_file' = cookies_file
                       /\ LoginStep("idle", "False", <<"is_logged_in">>)
        /\ UNCHANGED <<session_info_file, context_cookies, url>>

\* what the probes of a loop meet on an Authenticator whose page is closed
\* or was never made: wait_for_selector raises for every selector
NoPageAnswers(matches) == \A i \in DOMAIN matches : matches[i] = "crash"

\* the probes a loop has made: with self.page = None the AttributeError
\* comes before any call of the engine
Probed(r) == IF page = "none" THEN [r EXCEPT !.tried = <<>>] ELSE r

\* a step of search_user_by_nickname(): next is the position reached, "idle"
\* when the call returns result
SearchStep(next, result, performed) ==
    /\ pc' = next
    /\ ops' = performed
    /\ ret' = [NoRet EXCEPT !.result = result]
    /\ last_op' = "search_user_by_nickname"
    /\ last_arg' = NoArg
    /\ marker_probes' = 0
    /\ LET filled == Len(performed) > 2 \/ result = "none"
           raised == result = "False" /\ Len(performed) >= 2
       IN  log' = (IF filled THEN {"nickname"} ELSE {})
                  \cup (IF raised THEN {EngineError} ELSE {})
    /\ UNCHANGED <<now, fixedVars, storeVars, playwright, browser,
                   context, page, context_cookies, logins>>

\* search_user_by_nickname(): the search input is resolved and filled
SearchInput ==
    /\ Resting
    /\ \E matches \in Answers(NumSearchSelectors), fill \in Outcomes :
        \* without an open page every probe raises, and is swallowed
        /\ page # "open" => NoPageAnswers(matches)
        /\ LET r == Resolve("search", matches, NumSearchSelectors)
           IN  /\ probes' = Probed(r)
               /\ r.found = 0 => fill = "ok"
               /\ IF r.found = 0
                  THEN SearchStep("idle", "False",
                                  IF page = "none" THEN <<>>
                                  ELSE <<"resolve_search">>)
                  ELSE IF fill = "raise"
                  THEN SearchStep("idle", "False",
                                  <<"resolve_search", "fill_search">>)
                  ELSE SearchStep("search_button", "none",
                                  <<"resolve_search", "fill_search">>)
        /\ url' = url

\* search_user_by_nickname() that presses Enter whether or not it clicked a
\* button
SearchSubmit_presses_enter_too ==
    /\ pc = "search_button"
    /\ \E matches \in Answers(NumSearchButtonSelectors), act \in Outcomes,
          settle \in Outcomes, landing \in URLs :
        /\ LET r == Resolve("search_button", matches,
                            NumSearchButtonSelectors)
               done == ops \o <<"resolve_search_button">>
                           \o (IF r.found # 0 THEN <<"click_search">>
                               ELSE <<>>)
                           \o <<"press_enter">>
           IN  /\ probes' = r
               /\ act = "raise" => (settle = "ok" /\ landing = url)
               /\ url' = landing
               /\ IF act = "raise"
                  THEN SearchStep("idle", "False", done)
                  ELSE IF settle = "raise"
                  THEN SearchStep("idle", "False", done \o <<"settle">>)
                  ELSE SearchStep("idle", "True", done \o <<"settle">>)

\* search_user_by_nickname(): the search button is resolved and clicked, or
\* Enter is pressed in the input when no button is found; then the wait for
\* network idle
SearchSubmit ==
    /\ pc = "search_button"
    /\ \E matches \in Answers(NumSearchButtonSelectors), act \in Outcomes,
          settle \in Outcomes, landing \in URLs :
        /\ LET r == Resolve("search_button", matches,
                            NumSearchButtonSelectors)
               done == ops \o <<"resolve_search_button",
                                IF r.found # 0 THEN "click_search"
                                ELSE "press_enter">>
           IN  /\ probes' = r
               /\ act = "raise" => (settle = "ok" /\ landing = url)
               /\ url' = landing
               /\ IF act = "raise"
                  THEN SearchStep("idle", "False", done)
                  ELSE IF settle = "raise"
                  THEN SearchStep("idle", "False", done \o <<"settle">>)
                  ELSE SearchStep("idle", "True", done \o <<"settle">>)

NumSearchTabSelectors == 5
NumUserSelectors == 5

\* what the calls made on the element of each selector do, should the page
\* have one: "ok", or the call that raises ("click", "settle")
Acts(n) ==
    { [i \in 1..n |-> "ok"],
      [i \in 1..n |-> IF i = 1 THEN "click" ELSE "ok"],
      [i \in 1..n |-> IF i = 1 THEN "settle" ELSE "ok"],
      [i \in 1..n |-> "settle"] }

\* the answers of the page to the probes of such a loop: no element (the
\* probes time out, or raise another error), an element for every selector,
\* or for every selector but the first
NavAnswers(n) ==
    { [i \in 1..n |-> "timeout"],
      [i \in 1..n |-> "crash"],
      [i \in 1..n |-> "element"],
      [i \in 1..n |-> IF i = 1 THEN "timeout" ELSE "element"] }

\* the loop that returns True although the wait for network idle raised
RECURSIVE ClickFrom_ignores_settle(_, _, _, _)
ClickFrom_ignores_settle(matches, acts, i, n) ==
    IF i > n THEN [found |-> 0, tried |-> <<>>, done |-> <<>>]
    ELSE IF matches[i] = "element" /\ acts[i] # "click"
    THEN [found |-> i, tried |-> <<i>>,
          done |-> <<"click", IF acts[i] = "ok" THEN "settle"
                              ELSE "settle_raises">>]
    ELSE LET rest == ClickFrom_ignores_settle(matches, acts, i + 1, n)
         IN  [found |-> rest.found, tried |-> <<i>> \o rest.tried,
              done |-> (IF matches[i] = "element" THEN <<"click_raises">>
                        ELSE <<>>) \o rest.done]

\* the loop of navigate_to_user_search() and of click_user_profile() from
\* selector i on: probe, click and wait are inside one try, and whatever
\* raises there makes the loop go on with the next selector; done lists the
\* calls made once an element was there, and which of them raised
RECURSIVE ClickFrom(_, _, _, _)
ClickFrom(matches, acts, i, n) ==
    IF i > n THEN [found |-> 0, tried |-> <<>>, done |-> <<>>]
    ELSE IF matches[i] = "element" /\ acts[i] = "ok"
    THEN [found |-> i, tried |-> <<i>>, done |-> <<"click", "settle">>]
    ELSE LET rest == ClickFrom(matches, acts, i + 1, n)
             here == IF matches[i] # "element" THEN <<>>
                     ELSE IF acts[i] = "click" THEN <<"click_raises">>
                     ELSE <<"click", "settle_raises">>
         IN  [found |-> rest.found, tried |-> <<i>> \o rest.tried,
              done |-> here \o rest.done]

\* what one run of the loop can meet: the answers of the page to the
\* probes and, for the selectors that have an element, of the calls on it
NavOutcomes(n) ==
    { [matches |-> matches, r |-> ClickFrom(matches, acts, 1, n)] :
          matches \in NavAnswers(n), acts \in Acts(n) }

\* where the page is after the clicks of a call: where it was (a click that
\* raises, or one that changes the page by script), on another page of the
\* site, on its login page, or on a page outside the site
Landings == URLs

SearchTabOutcomes == NavOutcomes(NumSearchTabSelectors)
UserOutcomes == NavOutcomes(NumUserSelectors)

\* a call of navigate_to_user_search() or click_user_profile(): True at the
\* first selector whose element was clicked and whose wait completed, False
\* after the list; logged is what the call logs on its way out
NavCall(op, list, outcomes, logged) ==
    /\ Resting
    /\ \E o \in outcomes, landing \in Landings :
        \* without an open page every probe raises, and is swallowed
        /\ page # "open" => NoPageAnswers(o.matches)
        \* nothing was clicked: the page is where it was
        /\ o.r.done = <<>> => landing = url
        /\ probes' = Probed([list |-> list, found |-> o.r.found,
                             tried |-> o.r.tried, matches |-> o.matches])
        /\ ops' = o.r.done
        /\ ret' = [NoRet EXCEPT
                     !.result = IF o.r.found # 0 THEN "True" ELSE "False"]
        /\ url' = landing
    /\ log' = logged
    /\ pc' = "idle"
    /\ last_op' = op
    /\ last_arg' = [NoArg EXCEPT !.t = now]
    /\ marker_probes' = 0
    /\ UNCHANGED <<now, fixedVars, storeVars, playwright, browser,
                   context, page, context_cookies, logins>>

\* navigate_to_user_search()
NavigateToUserSearch ==
    NavCall("navigate_to_user_search", "search_tab", SearchTabOutcomes, {})

\* click_user_profile(nickname)
ClickUserProfile ==
    NavCall("click_user_profile", "user", UserOutcomes, {"nickname"})

(***************************************************************************)
(* Initial states.  The session directory outlives the process: at start   *)
(* each file is absent, left truncated by an interrupted write, or holds a *)
(* document; the metadata may be an object without its keys.               *)
(***************************************************************************)
\* settings.auth.session_timeout: a session that expires at once, and the
\* longest one
SessionTimeouts == {0, MaxTimeout}

EmptyObject == DumpInfo(NoInfo)
NoCreatedAt ==
    DumpInfo([NoInfo EXCEPT !.expires_at = isoformat(1),
                            !.last_activity = isoformat(0)])

InitCookiesFiles ==
    {Absent, Corrupt, JsonFile(DumpCookies(<<[name |-> "sid", value |-> "a"]>>))}
NoLastActivity ==
    DumpInfo([NoInfo EXCEPT !.created_at = isoformat(0),
                            !.expires_at = isoformat(1)])

InitInfoFiles ==
    {Absent, Corrupt, JsonFile(EmptyObject), JsonFile(NoCreatedAt),
     JsonFile(NoLastActivity)}

\* no other process is inside a call of the SessionManager
NoWriters == <<>>

\* an open file that still has its name: reading it gives what the file of
\* that name holds now
Linked == [st |-> "linked", doc |-> NoDoc]

\* no load_session() is between two of its steps; held is what the file the
\* call has open holds when another process has unlinked it since, expires
\* the expires_at that is_session_valid() parsed, t the clock value it read
NotLoading == [at |-> "idle", cookies |-> <<>>, t |-> 0, held |-> Linked,
               expires |-> 0]

InitAuth ==
    /\ playwright = "none"
    /\ browser = "none"
    /\ context = "none"
    /\ page = "none"
    /\ context_cookies = <<>>
    /\ url = [login |-> FALSE, base |-> FALSE]
    /\ pc = "new"
    /\ ops = <<>>
    /\ logins = 0
    /\ probes = NoProbes
    /\ marker_probes = 0
    /\ log = {}

InitStore ==
    /\ now = 0
    /\ session_timeout \in SessionTimeouts
    /\ cookies_file \in InitCookiesFiles
    /\ session_info_file \in InitInfoFiles
    /\ last_op = "init"
    /\ last_arg = NoArg
    /\ ret = NoRet
    /\ command = "none"
    /\ writers = NoWriters
    /\ loader = NotLoading
    /\ InitAuth

NextStore ==
    \/ SaveSession
    \/ LoadSession
    \/ IsSessionValid
    \/ UpdateLastActivity
    \/ ClearSession
    \/ GetSessionStatus
    \/ Tick

SpecStore == InitStore /\ [][NextStore]_vars

\* The store as earlier runs can have left it: nothing, the pair written by
\* a save_session, the cookies written by a login, or truncated files.
SavedAtStart(timeout) ==
    save_session(Absent, Absent, <<[name |-> "sid", value |-> "a"]>>, PyNone,
                 timeout, 0, 0, 0, "ok")

InitPairs(timeout) ==
    LET saved == SavedAtStart(timeout)
    IN  { <<Absent, Absent>>,
          <<saved.cookies_file, saved.session_info_file>>,
          <<saved.cookies_file, Absent>>,
          <<saved.cookies_file, Corrupt>>,
          <<Corrupt, saved.session_info_file>> }

\* The Authenticator never reads settings.security.session_timeout: one
\* value of it stands for all, with time enough for a record to expire.
InitProcess ==
    /\ now = 0
    /\ session_timeout = MaxTimeout
    /\ \E pair \in InitPairs(session_timeout) :
           /\ cookies_file = pair[1]
           /\ session_info_file = pair[2]
    /\ last_op = "init"
    /\ last_arg = NoArg
    /\ ret = NoRet
    /\ writers = NoWriters
    /\ loader = NotLoading
    /\ InitAuth

\* a program that uses the Authenticator as a library
Init ==
    /\ command = "none"
    /\ InitProcess

Next ==
    \/ StartBrowser
    \/ LoginNavigate
    \/ LoginCheck
    \/ LoginEmail
    \/ LoginPassword
    \/ LoginSubmit
    \/ LoginVerify
    \/ SearchInput
    \/ SearchSubmit
    \/ NavigateToUserSearch
    \/ ClickUserProfile
    \/ CloseBrowser
    \/ Tick

Spec == Init /\ [][Next]_vars

\* A login() that has started goes on: every await in it is a call of the
\* engine that returns or raises within the engine's timeout.
LoginGoesOn ==
    LoginCheck \/ LoginEmail \/ LoginPassword \/ LoginSubmit \/ LoginVerify

\* One Authenticator that is started on an empty session directory and
\* logs in.
InitLogin ==
    /\ Init
    /\ cookies_file = Absent
    /\ session_info_file = Absent

NextLogin ==
    \/ StartBrowser
    \/ LoginNavigate
    \/ LoginCheck
    \/ LoginEmail
    \/ LoginPassword
    \/ LoginSubmit
    \/ LoginVerify

SpecFair == InitLogin /\ [][NextLogin]_vars /\ WF_vars(LoginGoesOn)

(***************************************************************************)
(* Two processes that share the session directory and call save_session()  *)
(* at the same time.  Nothing in the code locks the files.  open(f, 'w')   *)
(* empties the file at once; the text of json.dump reaches it, from offset *)
(* 0, when the with-block closes it.  The steps of the two calls           *)
(* interleave freely.                                                      *)
(***************************************************************************)
Writers == {1, 2}

\* a call of save_session(cookies, user_info) that has not opened a file yet;
\* under is the length of what lies in the file the call holds open, t1 and
\* t2 the clock values read for created_at and expires_at, short the number
\* of isoformat() strs made so far from a clock value whose microsecond is
\* 0, wrote the metadata the call dumps
Entered(cookies, user_info) ==
    [at |-> "start", cookies |-> cookies, user_info |-> user_info,
     wrote |-> Absent, under |-> 0, t1 |-> 0, t2 |-> 0, short |-> 0]

\* len() of the strs that occur as keys and values of user_info
StrLen(s) == IF s = "user" THEN 4 ELSE IF s = "alice" THEN 5 ELSE 1

\* the number of characters json.dump(cookies, indent=2) writes for a list
\* of cookies {"name": "sid", "value": "a"}
CookiesTextLen(cookies) ==
    IF cookies = <<>> THEN 2 ELSE 2 + 45 * Len(cookies)

\* len() of datetime.isoformat(): the fraction ".ffffff" is left out when
\* the microsecond of the value is 0
IsoLen(zero) == IF zero THEN 19 ELSE 26

\* the number of characters json.dump(session_info, indent=2) writes when
\* short of its three isoformat() strs have no fraction
InfoTextLen(doc, short) ==
    (IF doc.user_info.m = {} THEN 162
     ELSE LET e == CHOOSE e \in doc.user_info.m : TRUE
          IN  162 + 14 + StrLen(e.k) + StrLen(e.v))
    - short * (IsoLen(FALSE) - IsoLen(TRUE))

\* the file a with-block leaves when it closes: the text of this call, from
\* offset 0, over the under characters another call has put there since
\* this one opened the file; what is left of a longer text makes the file
\* one that json.load rejects
Overwritten(under, len, file) ==
    IF under <= len THEN file ELSE Corrupt

\* the other calls that hold a file open see its length change
Others(w, at, under) ==
    [v \in DOMAIN writers |->
        IF v # w /\ writers[v].at = at
        THEN [writers[v] EXCEPT !.under = under[v]]
        ELSE writers[v]]

\* a step of one of the concurrent save_session() calls
RaceStep ==
    /\ last_op' = "save"
    /\ last_arg' = NoArg
    /\ ret' = NoRet
    /\ UNCHANGED <<session_timeout, command, loader, authVars, log>>

\* open(self.cookies_file, 'w'): the file is there and empty
RaceOpenCookies ==
    \E w \in DOMAIN writers :
        /\ writers[w].at = "start"
        /\ cookies_file' = Corrupt
        /\ writers' = [Others(w, "cookies_open", [v \in DOMAIN writers |-> 0])
                          EXCEPT ![w].at = "cookies_open", ![w].under = 0]
        /\ RaceStep
        /\ UNCHANGED <<now, session_info_file>>

\* the first with-block of save_session() closes: cookies.json is written
RaceWriteCookies ==
    \E w \in DOMAIN writers :
        /\ writers[w].at = "cookies_open"
        /\ LET len == CookiesTextLen(writers[w].cookies)
               written ==
                   save_session(cookies_file, session_info_file,
                                writers[w].cookies, writers[w].user_info,
                                session_timeout, now, now, now,
                                "info_open").cookies_file
           IN  /\ cookies_file' = Overwritten(writers[w].under, len, written)
               /\ writers' =
                      [Others(w, "cookies_open",
                              [v \in DOMAIN writers |-> Max(writers[v].under, len)])
                          EXCEPT ![w].at = "cookies_written",
                                 ![w].under = 0]
        /\ RaceStep
        /\ UNCHANGED <<now, session_info_file>>

\* 'created_at': datetime.now().isoformat(); the microsecond of the value
\* read is 0 or it is not
RaceReadCreated ==
    \E w \in DOMAIN writers, zero \in BOOLEAN :
        /\ writers[w].at = "cookies_written"
        /\ writers' =
               [writers EXCEPT
                  ![w].at = "created_read",
                  ![w].t1 = now,
                  ![w].short = IF zero THEN 1 ELSE 0]
        /\ RaceStep
        /\ UNCHANGED <<now, storeVars>>

\* 'expires_at': (datetime.now() + timedelta(...)).isoformat()
RaceReadExpires ==
    \E w \in DOMAIN writers, zero \in BOOLEAN :
        /\ writers[w].at = "created_read"
        /\ writers' =
               [writers EXCEPT
                  ![w].at = "expires_read",
                  ![w].t2 = now,
                  ![w].short = @ + IF zero THEN 1 ELSE 0]
        /\ RaceStep
        /\ UNCHANGED <<now, storeVars>>

\* 'last_activity': datetime.now().isoformat(); session_info is built
RaceReadActivity ==
    \E w \in DOMAIN writers, zero \in BOOLEAN :
        /\ writers[w].at = "expires_read"
        /\ writers' =
               [writers EXCEPT
                  ![w].at = "info_built",
                  ![w].wrote =
                      save_session(cookies_file, session_info_file,
                                   writers[w].cookies, writers[w].user_info,
                                   session_timeout, writers[w].t1,
                                   writers[w].t2, now,
                                   "ok").session_info_file,
                  ![w].t1 = 0,
                  ![w].t2 = 0,
                  ![w].short = @ + IF zero THEN 1 ELSE 0]
        /\ RaceStep
        /\ UNCHANGED <<now, storeVars>>

\* open(self.session_info_file, 'w'): the file is there and empty
RaceOpenInfo ==
    \E w \in DOMAIN writers :
        /\ writers[w].at = "info_built"
        /\ session_info_file' = Corrupt
        /\ writers' = [Others(w, "info_open", [v \in DOMAIN writers |-> 0])
                          EXCEPT ![w].at = "info_open", ![w].under = 0]
        /\ RaceStep
        /\ UNCHANGED <<now, cookies_file>>

\* the second with-block of save_session() closes: session_info.json is
\* written and the call returns
RaceWriteInfo ==
    \E w \in DOMAIN writers :
        /\ writers[w].at = "info_open"
        /\ LET len == InfoTextLen(writers[w].wrote.doc, writers[w].short)
           IN  /\ session_info_file' =
                      Overwritten(writers[w].under, len, writers[w].wrote)
               /\ writers' =
                      [Others(w, "info_open",
                              [v \in DOMAIN writers |-> Max(writers[v].under, len)])
                          EXCEPT ![w].at = "done", ![w].under = 0,
                                 ![w].short = 0]
        /\ RaceStep
        /\ UNCHANGED <<now, cookies_file>>

\* time passes while the calls run
RaceTick ==
    /\ now < MaxTime
    /\ now' = now + 1
    /\ last_op' = "tick"
    /\ last_arg' = NoArg
    /\ ret' = NoRet
    /\ UNCHANGED <<fixedVars, storeVars, authVars, log>>

\* the arguments of the two calls: cookie lists of every length, no
\* user_info or one that makes the metadata text longer
RaceUserInfos ==
    {PyNone, PyDict({[k |-> PyStrKey("user"), v |-> "alice"]})}

InitRace ==
    /\ now = 0
    /\ session_timeout = MaxTimeout
    /\ cookies_file = Absent
    /\ session_info_file = Absent
    /\ last_op = "init"
    /\ last_arg = NoArg
    /\ ret = NoRet
    /\ command = "none"
    /\ loader = NotLoading
    /\ writers \in [Writers -> {Entered(c, u) : c \in CookieLists,
                                                u \in RaceUserInfos}]
    /\ InitAuth

NextRace ==
    \/ RaceOpenCookies
    \/ RaceWriteCookies
    \/ RaceReadCreated
    \/ RaceReadExpires
    \/ RaceReadActivity
    \/ RaceOpenInfo
    \/ RaceWriteInfo
    \/ RaceTick

SpecRace == InitRace /\ [][NextRace]_vars

(***************************************************************************)
(* load_session() call by call of the file system and the clock, while     *)
(* another process works on the same directory: it calls save_session(),   *)
(* clear_session() and update_last_activity() one after the other, each of *)
(* them step by step.  Nothing locks the directory.  A file that is        *)
(* unlinked while the loader has it open keeps its content for the loader. *)
(***************************************************************************)
\* what json.load(f) reads from the file the loader has open
Seen(file) == IF loader.held = Linked THEN file ELSE loader.held

\* load_session() returns value; logged is {EngineError} when it returns
\* from an except clause, its own or that of is_session_valid()
LoadReturn(value, logged) ==
    /\ ret' = [NoRet EXCEPT !.load = value]
    /\ log' = logged
    /\ last_op' = "load"
    /\ last_arg' = [NoArg EXCEPT !.t = loader.t]
    /\ loader' = NotLoading
    /\ UNCHANGED <<now, session_timeout, command, writers, storeVars,
                   authVars>>

\* load_session() goes on to its next step
LoadStep(next) ==
    /\ loader' = next
    /\ ret' = NoRet
    /\ last_op' = "loading"
    /\ last_arg' = NoArg
    /\ log' = {}
    /\ UNCHANGED <<now, session_timeout, command, writers, storeVars,
                   authVars>>

\* is_session_valid(): session_info_file.exists()
LoadValidExists ==
    /\ loader.at = "idle"
    /\ IF session_info_file.st = "absent"
       THEN LoadReturn(None, {})
       ELSE LoadStep([loader EXCEPT !.at = "valid_exists"])

\* is_session_valid(): open(session_info_file, 'r'); the FileNotFoundError
\* of a file unlinked since is caught and makes the session invalid
LoadValidOpen ==
    /\ loader.at = "valid_exists"
    /\ IF session_info_file.st = "absent"
       THEN LoadReturn(None, {EngineError})
       ELSE LoadStep([loader EXCEPT !.at = "valid_open"])

\* is_session_valid(): json.load(f) and fromisoformat of expires_at
LoadValidRead ==
    /\ loader.at = "valid_open"
    /\ LET f == Seen(session_info_file)
       IN  IF f.st # "json"
           THEN LoadReturn(None, {EngineError})
           ELSE LET expires_at ==
                        fromisoformat(Get(LoadInfo(f.doc).expires_at,
                                          EmptyStr))
                IN  IF ~expires_at.ok
                    THEN LoadReturn(None, {EngineError})
                    ELSE LoadStep([loader EXCEPT !.at = "valid_read",
                                                 !.held = Linked,
                                                 !.expires = expires_at.t])

\* is_session_valid(): datetime.now() > expires_at
LoadValidNow ==
    /\ loader.at = "valid_read"
    /\ IF now > loader.expires
       THEN LoadReturn(None, {})
       ELSE LoadStep([loader EXCEPT !.at = "checked", !.t = now,
                                    !.expires = 0])

\* load_session(): cookies_file.exists(); cookies stays [] without the file
LoadCookiesExists ==
    /\ loader.at = "checked"
    /\ LoadStep([loader EXCEPT
                   !.at = IF cookies_file.st = "absent" THEN "cookies_read"
                          ELSE "cookies_exists"])

\* load_session(): open(cookies_file, 'r'); the FileNotFoundError of a file
\* unlinked since is caught and None returned
LoadCookiesOpen ==
    /\ loader.at = "cookies_exists"
    /\ IF cookies_file.st = "absent"
       THEN LoadReturn(None, {EngineError})
       ELSE LoadStep([loader EXCEPT !.at = "cookies_open"])

\* load_session(): cookies = json.load(f)
LoadCookiesRead ==
    /\ loader.at = "cookies_open"
    /\ LET f == Seen(cookies_file)
       IN  IF f.st # "json"
           THEN LoadReturn(None, {EngineError})
           ELSE LoadStep([loader EXCEPT !.at = "cookies_read",
                                        !.held = Linked,
                                        !.cookies = LoadCookies(f.doc)])

\* load_session(): session_info_file.exists(); session_info stays {} without
\* the file and the record is returned
LoadInfoExists ==
    /\ loader.at = "cookies_read"
    /\ IF session_info_file.st = "absent"
       THEN LoadReturn([some |-> TRUE, cookies |-> loader.cookies,
                        session_info |-> NoInfo], {})
       ELSE LoadStep([loader EXCEPT !.at = "info_exists"])

\* load_session(): open(session_info_file, 'r')
LoadInfoOpen ==
    /\ loader.at = "info_exists"
    /\ IF session_info_file.st = "absent"
       THEN LoadReturn(None, {EngineError})
       ELSE LoadStep([loader EXCEPT !.at = "info_open"])

\* load_session(): session_info = json.load(f), and the record is returned
LoadInfoRead ==
    /\ loader.at = "info_open"
    /\ LET f == Seen(session_info_file)
       IN  IF f.st # "json"
           THEN LoadReturn(None, {EngineError})
           ELSE LoadReturn([some |-> TRUE, cookies |-> loader.cookies,
                            session_info |-> LoadInfo(f.doc)], {})

\* the other process between two calls
Returned0 == [Entered(<<>>, PyNone) EXCEPT !.at = "done"]

\* a step of the other process that is no step of save_session()
PeerStep(op, next) ==
    /\ writers' = [writers EXCEPT ![1] = next]
    /\ last_op' = op
    /\ last_arg' = NoArg
    /\ ret' = NoRet
    /\ UNCHANGED <<now, session_timeout, command, authVars, log>>

\* the other process enters save_session(cookies, user_info),
\* clear_session() or update_last_activity()
PeerCall ==
    /\ writers[1].at = "done"
    /\ \/ \E c \in CookieLists, u \in RaceUserInfos :
              PeerStep("save", Entered(c, u))
       \/ PeerStep("clear", [Returned0 EXCEPT !.at = "clear_start"])
       \/ PeerStep("touch", [Returned0 EXCEPT !.at = "touch_start"])
    /\ UNCHANGED <<storeVars, loader>>

\* the loader after an unlink: the file it has open keeps its content
Unlinked(holding, file) ==
    IF loader.at \in holding /\ loader.held = Linked
    THEN [loader EXCEPT !.held = file]
    ELSE loader

\* clear_session(): cookies_file.exists()
PeerClearTestCookies ==
    /\ writers[1].at = "clear_start"
    /\ PeerStep("clear",
                [writers[1] EXCEPT
                   !.at = IF cookies_file.st = "absent" THEN "clear_info"
                          ELSE "clear_cookies"])
    /\ UNCHANGED <<storeVars, loader>>

\* clear_session(): cookies_file.unlink()
PeerClearUnlinkCookies ==
    /\ writers[1].at = "clear_cookies"
    /\ cookies_file' = Absent
    /\ loader' = Unlinked({"cookies_open"}, cookies_file)
    /\ PeerStep("clear", [writers[1] EXCEPT !.at = "clear_info"])
    /\ UNCHANGED session_info_file

\* clear_session(): session_info_file.exists()
PeerClearTestInfo ==
    /\ writers[1].at = "clear_info"
    /\ PeerStep("clear",
                IF session_info_file.st = "absent" THEN Returned0
                ELSE [writers[1] EXCEPT !.at = "clear_session_info"])
    /\ UNCHANGED <<storeVars, loader>>

\* clear_session(): session_info_file.unlink()
PeerClearUnlinkInfo ==
    /\ writers[1].at = "clear_session_info"
    /\ session_info_file' = Absent
    /\ loader' = Unlinked({"valid_open", "info_open"}, session_info_file)
    /\ PeerStep("clear", Returned0)
    /\ UNCHANGED cookies_file

\* update_last_activity(): session_info_file.exists()
PeerTouchExists ==
    /\ writers[1].at = "touch_start"
    /\ PeerStep("touch",
                IF session_info_file.st = "absent" THEN Returned0
                ELSE [writers[1] EXCEPT !.at = "touch_exists"])
    /\ UNCHANGED <<storeVars, loader>>

\* update_last_activity(): the with-block that reads session_info.json; no
\* other process writes the file, so its open and its json.load see the
\* same content; an exception of json.load ends the call
PeerTouchRead ==
    /\ writers[1].at = "touch_exists"
    /\ PeerStep("touch",
                IF session_info_file.st # "json" THEN Returned0
                ELSE [writers[1] EXCEPT !.at = "touch_read",
                                        !.wrote = session_info_file])
    /\ UNCHANGED <<storeVars, loader>>

\* update_last_activity(): session_info['last_activity'] = now().isoformat()
PeerTouchNow ==
    /\ writers[1].at = "touch_read"
    /\ PeerStep("touch",
                [writers[1] EXCEPT
                   !.at = "touch_built",
                   !.wrote = update_last_activity(writers[1].wrote, now,
                                                  "ok")])
    /\ UNCHANGED <<storeVars, loader>>

\* update_last_activity(): open(session_info_file, 'w') empties the file
PeerTouchOpen ==
    /\ writers[1].at = "touch_built"
    /\ session_info_file' = Corrupt
    /\ PeerStep("touch", [writers[1] EXCEPT !.at = "touch_open"])
    /\ UNCHANGED <<cookies_file, loader>>

\* update_last_activity(): the with-block closes, the text is in the file
PeerTouchWrite ==
    /\ writers[1].at = "touch_open"
    /\ session_info_file' = writers[1].wrote
    /\ PeerStep("touch", Returned0)
    /\ UNCHANGED <<cookies_file, loader>>

InitLoadRace ==
    /\ now = 0
    /\ session_timeout \in SessionTimeouts
    /\ cookies_file \in InitCookiesFiles
    /\ session_info_file \in InitInfoFiles
    /\ last_op = "init"
    /\ last_arg = NoArg
    /\ ret = NoRet
    /\ command = "none"
    /\ writers = <<Returned0>>
    /\ loader = NotLoading
    /\ InitAuth

NextLoadRace ==
    \/ LoadValidExists
    \/ LoadValidOpen
    \/ LoadValidRead
    \/ LoadValidNow
    \/ LoadCookiesExists
    \/ LoadCookiesOpen
    \/ LoadCookiesRead
    \/ LoadInfoExists
    \/ LoadInfoOpen
    \/ LoadInfoRead
    \/ PeerCall
    \/ RaceOpenCookies
    \/ RaceWriteCookies
    \/ RaceReadCreated
    \/ RaceReadExpires
    \/ RaceReadActivity
    \/ RaceOpenInfo
    \/ RaceWriteInfo
    \/ PeerClearTestCookies
    \/ PeerClearUnlinkCookies
    \/ PeerClearTestInfo
    \/ PeerClearUnlinkInfo
    \/ PeerTouchExists
    \/ PeerTouchRead
    \/ PeerTouchNow
    \/ PeerTouchOpen
    \/ PeerTouchWrite
    \/ RaceTick

SpecLoadRace == InitLoadRace /\ [][NextLoadRace]_vars

(***************************************************************************)
(* cli.py: one process runs main() and one command.  login, search_user    *)
(* and test_browser work inside "async with TradeIslandAuthenticator() as  *)
(* auth"; session_status and clear_session call the SessionManager; config *)
(* prints the settings.                                                    *)
(***************************************************************************)
Commands ==
    {"login", "search_user", "session_status", "clear_session",
     "test_browser", "config"}

\* the commands that log in
LoginCommands == {"login", "search_user"}

\* the call before returned this result
Returned(op, result) == pc = "idle" /\ last_op = op /\ ret.result = result

\* main(): scraping/config/settings.yaml is missing; the process exits with
\* 1 before click runs any command
CliNoConfig ==
    /\ command \in Commands
    /\ pc = "new" /\ last_op \in {"init", "tick"}
    /\ pc' = "exited"
    /\ ret' = [NoRet EXCEPT !.result = "exit_1"]
    /\ last_op' = "exit"
    /\ last_arg' = [NoArg EXCEPT !.io = "no_config"]
    /\ UNCHANGED <<now, fixedVars, storeVars, playwright, browser, context,
                   page, context_cookies, url, ops, logins, probes,
                   marker_probes, log>>

\* __aenter__: start_browser()
CliStart == command \in LoginCommands \cup {"test_browser"} /\ pc = "new" /\ StartBrowser

\* auth.login(email, password), the first call of both commands
CliLogin ==
    /\ command \in LoginCommands
    /\ pc = "idle" /\ last_op = "start_browser"
    /\ LoginNavigate

\* auth.navigate_to_user_search(), called when login() returned True
CliNavigate ==
    /\ command \in LoginCommands
    /\ Returned("login", "True")
    /\ NavigateToUserSearch

\* auth.search_user_by_nickname(nickname), called by search_user when the
\* navigation returned True
CliSearch ==
    /\ command = "search_user"
    /\ Returned("navigate_to_user_search", "True")
    /\ SearchInput

\* auth.click_user_profile(nickname), called by search_user when the search
\* returned True
CliOpenProfile ==
    /\ command = "search_user"
    /\ Returned("search_user_by_nickname", "True")
    /\ ClickUserProfile

\* the body of test_browser: page.goto(base page) and page.title(); an
\* exception of either leaves the with-block
CliTestBrowser ==
    /\ command = "test_browser"
    /\ pc = "idle" /\ last_op = "start_browser"
    /\ \E goto \in Outcomes, title \in Outcomes, landing \in URLs :
        /\ goto = "raise" => (title = "ok" /\ landing = url)
        /\ ops' = IF goto = "raise" THEN <<"goto">> ELSE <<"goto", "title">>
        /\ url' = landing
        /\ ret' = [NoRet EXCEPT
                     !.raised = (goto = "raise" \/ title = "raise")]
    /\ pc' = "idle"
    /\ probes' = NoProbes
    /\ marker_probes' = 0
    /\ log' = {}
    /\ last_op' = "test_browser"
    /\ last_arg' = NoArg
    /\ UNCHANGED <<now, fixedVars, storeVars, playwright, browser, context,
                   page, context_cookies, logins>>

\* the body of the command has no call left: a call returned False, or the
\* last call of the command returned
BodyDone ==
    \/ Returned("login", "False")
    \/ Returned("navigate_to_user_search", "False")
    \/ Returned("search_user_by_nickname", "False")
    \/ command = "login" /\ Returned("navigate_to_user_search", "True")
    \/ pc = "idle" /\ last_op = "click_user_profile"
    \/ pc = "idle" /\ last_op = "test_browser"

\* the exit status of a command whose body returned: the body prints its
\* message and returns, asyncio.run() returns, and click exits with 0
ExitStatus(failed) == "exit_0"

\* the end of the command: __aexit__ calls close_browser(), which logs the
\* exception of a close that raises; then the process exits.  test_browser
\* catches the exception of its body, prints it, and exits the same way
CliExit ==
    /\ command \in LoginCommands \cup {"test_browser"}
    /\ BodyDone
    /\ \E fail \in CloseFail :
        /\ LET r == close_browser(page, context, browser, fail)
           IN  /\ page' = r.page
               /\ context' = r.context
               /\ browser' = r.browser
        /\ last_arg' = [NoArg EXCEPT !.io = fail]
        /\ log' = IF (fail = "page" /\ page # "none")
                      \/ (fail = "context" /\ context # "none")
                      \/ (fail = "browser" /\ browser # "none")
                   THEN {EngineError} ELSE {}
    /\ pc' = "exited"
    /\ ret' = [NoRet EXCEPT !.result = ExitStatus(ret.result = "False")]
    /\ last_op' = "exit"
    /\ UNCHANGED <<now, fixedVars, storeVars, playwright, context_cookies,
                   url, ops, logins, probes, marker_probes>>

\* start_browser() raised: __aexit__ is not run.  In login and search_user
\* the exception leaves asyncio.run() and the interpreter exits with 1;
\* test_browser catches it, prints it, and the process exits with 0
CliAbort ==
    /\ command \in LoginCommands \cup {"test_browser"}
    /\ pc = "failed"
    /\ pc' = "exited"
    /\ ret' = [NoRet EXCEPT
                 !.result = IF command = "test_browser" THEN "exit_0"
                            ELSE "exit_1"]
    /\ last_op' = "exit"
    /\ last_arg' = NoArg
    /\ UNCHANGED <<now, fixedVars, storeVars, playwright, browser, context,
                   page, context_cookies, url, ops, logins, probes,
                   marker_probes, log>>

\* the command session_status: get_session_status() of a new SessionManager
\* is printed, the process exits with 0
CliSessionStatus ==
    /\ command = "session_status"
    /\ pc = "new"
    /\ \E d \in 0..MaxSkew :
        /\ now + d <= MaxTime
        /\ LET status == get_session_status(session_info_file, now, now + d)
           IN  /\ ret' = [NoRet EXCEPT !.status = status,
                                       !.result = "exit_0"]
               /\ log' = ValidLog(session_info_file)
                          \cup (IF status.status = "error"
                                THEN {EngineError} ELSE {})
        /\ now' = now + d
    /\ pc' = "exited"
    /\ last_op' = "exit"
    /\ last_arg' = [NoArg EXCEPT !.t = now]
    /\ UNCHANGED <<fixedVars, storeVars, playwright, browser, context, page,
                   context_cookies, url, ops, logins, probes, marker_probes>>

\* the command clear_session: clear_session() of a new SessionManager, which
\* logs the exception of an unlink that raises; the process exits with 0
CliClearSession ==
    /\ command = "clear_session"
    /\ pc = "new"
    /\ \E io \in ClearIO :
        /\ LET r == clear_session(cookies_file, session_info_file, io)
           IN  /\ cookies_file' = r.cookies_file
               /\ session_info_file' = r.session_info_file
               /\ log' = IF r.cookies_file # Absent
                             \/ r.session_info_file # Absent
                          THEN {EngineError} ELSE {}
        /\ last_arg' = [NoArg EXCEPT !.io = io, !.t = now,
                                     !.before = session_info_file.st]
    /\ pc' = "exited"
    /\ ret' = [NoRet EXCEPT !.result = "exit_0"]
    /\ last_op' = "exit"
    /\ UNCHANGED <<now, fixedVars, playwright, browser, context, page,
                   context_cookies, url, ops, logins, probes, marker_probes>>

\* the command config: the settings are printed, the process exits with 0
CliConfig ==
    /\ command = "config"
    /\ pc = "new"
    /\ pc' = "exited"
    /\ ret' = [NoRet EXCEPT !.result = "exit_0"]
    /\ last_op' = "exit"
    /\ last_arg' = NoArg
    /\ UNCHANGED <<now, fixedVars, storeVars, playwright, browser, context,
                   page, context_cookies, url, ops, logins, probes,
                   marker_probes, log>>

InitCli ==
    /\ command \in Commands
    /\ InitProcess

NextCli ==
    \/ CliNoConfig
    \/ CliStart
    \/ CliLogin
    \/ LoginCheck
    \/ LoginEmail
    \/ LoginPassword
    \/ LoginSubmit
    \/ LoginVerify
    \/ CliNavigate
    \/ CliSearch
    \/ SearchSubmit
    \/ CliOpenProfile
    \/ CliTestBrowser
    \/ CliExit
    \/ CliAbort
    \/ CliSessionStatus
    \/ CliClearSession
    \/ CliConfig
    \/ Tick

SpecCli == InitCli /\ [][NextCli]_vars

(***************************************************************************)
(* Properties of login().                                                  *)
(***************************************************************************)
\* the page operations of a login() up to its first _is_logged_in()
FirstCheckOps == <<"goto", "settle", "is_logged_in">>
\* the page operations of a login() up to its second _is_logged_in()
SubmittedOps ==
    <<"goto", "settle", "is_logged_in", "resolve_email", "fill_email",
      "resolve_password", "fill_password", "resolve_login", "click_login",
      "settle", "is_logged_in">>

InOps(op) == \E i \in 1..Len(ops) : ops[i] = op

\* what the _is_logged_in() that was just made has seen: the URL is a page
\* of the site other than the login page, or an indicator was found
CheckHeld == (~url.login /\ url.base) \/ probes.found # 0

\* C1: when the first _is_logged_in() of a login() holds, the call has
\* returned True and has made no fill and no click
C1_IdempotentLogin ==
    (last_op = "login" /\ ops = FirstCheckOps /\ CheckHeld)
        => /\ pc = "idle"
           /\ ret.result = "True"
           /\ ~InOps("fill_email") /\ ~InOps("fill_password")
           /\ ~InOps("click_login")

C1_Witness ==
    /\ last_op = "login" /\ ops = FirstCheckOps /\ CheckHeld
    /\ pc = "idle" /\ ret.result = "True"
    /\ probes.found # 0

\* C2: a login() whose fills and click succeeded and whose second
\* _is_logged_in() fails returns False, and no step of a login() other than
\* a verification that holds changes cookies.json or session_info.json
C2_InvalidCredentials ==
    [][ last_op' = "login" =>
          /\ (pc = "verify" /\ ~CheckHeld')
                => (pc' = "idle" /\ ret'.result = "False"
                    /\ ops' = SubmittedOps /\ UNCHANGED storeVars)
          /\ ~(pc = "verify" /\ CheckHeld') => UNCHANGED storeVars ]_vars

C2_Witness ==
    /\ last_op = "login" /\ pc = "idle" /\ ops = SubmittedOps
    /\ ~CheckHeld /\ ret.result = "False"

\* C3: when no selector of the e-mail, the password or the login-button list
\* matches, login() returns False with that resolution as its last step:
\* nothing is filled after a missing e-mail field, and the login button is
\* neither resolved nor clicked after a missing password field
C3_MissingField ==
    (last_op = "login" /\ probes.list \in {"email", "password", "login"}
       /\ probes.found = 0)
        => /\ pc = "idle"
           /\ ret.result = "False"
           /\ ops[Len(ops)] = "resolve_" \o probes.list
           /\ ~InOps("click_login")
           /\ probes.list = "email"
                => (~InOps("fill_email") /\ ~InOps("fill_password"))
           /\ probes.list = "password"
                => (~InOps("fill_password") /\ ~InOps("resolve_login"))

C3_Witness ==
    /\ last_op = "login" /\ probes.list = "password" /\ probes.found = 0
    /\ pc = "idle" /\ ret.result = "False" /\ InOps("fill_email")

\* C4: a login() that submitted the credentials, saw the verification hold
\* and wrote the cookies has persisted a session that load_session() returns
\* with the cookies of the browser context
C4_LoginPersistsSession ==
    (last_op = "login" /\ pc = "idle" /\ ret.result = "True"
       /\ ops = SubmittedOps \o <<"save_session">>
       /\ cookies_file = JsonFile(DumpCookies(context_cookies)))
        => /\ session_info_file.st = "json"
           /\ load_session(cookies_file, session_info_file, now).some
           /\ load_session(cookies_file, session_info_file, now).cookies
                = context_cookies

\* C5: after a login() that saved its session and returned True the metadata
\* is the one of this login: created now, expiring session_timeout later
C5_LoginOverwritesRecord ==
    (last_op = "login" /\ pc = "idle" /\ ret.result = "True"
       /\ InOps("save_session"))
        => /\ session_info_file.st = "json"
           /\ session_info_file.doc.created_at = isoformat(now)
           /\ session_info_file.doc.expires_at
                = isoformat(now + session_timeout)

\* C6: start_browser() adds stored cookies to the context only when the
\* metadata exists, parses and has not expired
C6_RestoreOnlyValidSession ==
    (last_op = "start_browser" /\ context_cookies # <<>>)
        => is_session_valid(session_info_file, now)

(***************************************************************************)
(* Properties of the session store.                                        *)
(***************************************************************************)
\* the parsed timestamps of a metadata file that holds a document
ExpiresAt(sif) == fromisoformat(Get(LoadInfo(sif.doc).expires_at, EmptyStr))
CreatedAt(sif) == fromisoformat(Get(LoadInfo(sif.doc).created_at, EmptyStr))
LastActivity(sif) ==
    fromisoformat(Get(LoadInfo(sif.doc).last_activity, EmptyStr))
WellFormed(sif) ==
    /\ sif.st = "json"
    /\ ExpiresAt(sif).ok /\ CreatedAt(sif).ok /\ LastActivity(sif).ok

\* C7: metadata whose expires_at lies before the clock makes load_session()
\* return None and get_session_status() report is_valid False, whatever
\* cookies.json holds; a record with now <= expires_at is reported valid,
\* and load_session() returns it when cookies.json can be read
C7_ExpiryCorrectness ==
    /\ (session_info_file.st = "json" /\ ExpiresAt(session_info_file).ok
          /\ ExpiresAt(session_info_file).t < now)
        => /\ load_session(cookies_file, session_info_file, now) = None
           /\ ~is_session_valid(session_info_file, now)
           /\ \A d \in 0..MaxSkew :
                ~get_session_status(session_info_file, now, now + d).is_valid
    /\ (WellFormed(session_info_file)
          /\ now <= ExpiresAt(session_info_file).t)
        => /\ is_session_valid(session_info_file, now)
           /\ \A d \in 0..MaxSkew :
                get_session_status(session_info_file, now, now + d).is_valid
           /\ cookies_file.st # "corrupt"
                => load_session(cookies_file, session_info_file, now).some
    /\ last_op = "load"
        => ret.load = load_session(cookies_file, session_info_file, now)

C7_Witness ==
    /\ last_op = "load"
    /\ WellFormed(session_info_file)
    /\ ExpiresAt(session_info_file).t < now
    /\ cookies_file.st = "json" /\ cookies_file.doc.items # <<>>
    /\ ret.load = None

\* C8: update_last_activity() on an existing record writes last_activity =
\* now and leaves expires_at, created_at, user_info and cookies.json as they
\* were; a step after which the metadata holds another expires_at than
\* before is a save_session()
C8_FixedWindow ==
    [][ /\ (last_op' = "touch" /\ last_arg'.io = "ok"
              /\ session_info_file.st = "json")
            => /\ session_info_file'.st = "json"
               /\ session_info_file'.doc.last_activity = isoformat(now)
               /\ session_info_file'.doc.expires_at
                    = session_info_file.doc.expires_at
               /\ session_info_file'.doc.created_at
                    = session_info_file.doc.created_at
               /\ session_info_file'.doc.user_info
                    = session_info_file.doc.user_info
               /\ cookies_file' = cookies_file
        /\ (session_info_file'.st = "json"
              /\ (session_info_file.st # "json"
                    \/ session_info_file'.doc.expires_at
                         # session_info_file.doc.expires_at))
            => last_op' = "save" ]_vars

C8_Witness ==
    /\ last_op = "touch" /\ last_arg.io = "ok" /\ last_arg.before = "json"
    /\ WellFormed(session_info_file)
    /\ LastActivity(session_info_file).t = now
    /\ CreatedAt(session_info_file).t < now
    /\ ExpiresAt(session_info_file).t
         = CreatedAt(session_info_file).t + session_timeout

\* a user_info that is a dict whose keys are all str
StrKeyed(user_info) ==
    user_info.ty = "dict" /\ \A e \in user_info.d : e.k.ty = "str"

\* C9: right after a save_session(cookies, user_info) that has not expired
\* yet, load_session() returns the saved cookies and the saved user_info
\* (a dict with str keys; no user_info is read back as the empty dict)
C9_RoundTrip ==
    (last_op = "save" /\ last_arg.io = "ok" /\ session_timeout > 0
       /\ now <= ExpiresAt(session_info_file).t)
        => LET r == load_session(cookies_file, session_info_file, now)
           IN  /\ r.some
               /\ r.cookies = last_arg.cookies
               /\ StrKeyed(last_arg.user_info)
                    => r.session_info.user_info = last_arg.user_info
               /\ last_arg.user_info = PyNone
                    => r.session_info.user_info = PyDict({})

C9_Witness ==
    /\ last_op = "save" /\ last_arg.io = "ok" /\ session_timeout > 0
    /\ last_arg.cookies # <<>>
    /\ last_arg.user_info.d # {} /\ StrKeyed(last_arg.user_info)
    /\ load_session(cookies_file, session_info_file, now).cookies
         = last_arg.cookies

\* C10: clear_session() raises nothing; when its unlinks succeed, and also
\* when there was nothing to remove, both files are absent afterwards,
\* load_session() returns None and get_session_status() reports is_valid
\* False
C10_ClearIdempotence ==
    [][ last_op' = "clear" =>
          /\ ~ret'.raised
          /\ (last_arg'.io = "ok"
                \/ (cookies_file = Absent /\ session_info_file = Absent))
              => /\ cookies_file' = Absent
                 /\ session_info_file' = Absent
                 /\ load_session(cookies_file', session_info_file', now')
                      = None
                 /\ \A d \in 0..MaxSkew :
                      ~get_session_status(session_info_file', now',
                                          now' + d).is_valid ]_vars

C10_Witness ==
    /\ last_op = "clear" /\ last_arg.io = "ok" /\ last_arg.before = "json"
    /\ cookies_file = Absent /\ session_info_file = Absent
    /\ ~ret.raised

\* the record load_session() returns for the two files as they are
Stored(cf, sif) ==
    [some |-> TRUE,
     cookies |-> IF cf.st = "json" THEN LoadCookies(cf.doc) ELSE <<>>,
     session_info |-> LoadInfo(sif.doc)]

\* the metadata is missing, is not JSON, has no expires_at that parses, or
\* has expired at time t
Unusable(sif, t) ==
    \/ sif.st # "json"
    \/ ~ExpiresAt(sif).ok
    \/ t > ExpiresAt(sif).t

\* C11 as stated: load_session() returns None when the metadata is missing,
\* unparsable or expired, and in every other case the stored cookies with
\* the stored metadata
C11_LoadSemantics ==
    last_op = "load" =>
        IF Unusable(session_info_file, now)
        THEN ret.load = None
        ELSE ret.load = Stored(cookies_file, session_info_file)

\* C11 amended: load_session() returns None when the metadata is missing,
\* unparsable or expired, and also when cookies.json exists but does not
\* parse; in every other case it returns the stored cookies (the empty list
\* when cookies.json is missing) with the stored metadata
C11_LoadSemanticsAmended ==
    last_op = "load" =>
        IF Unusable(session_info_file, now) \/ cookies_file.st = "corrupt"
        THEN ret.load = None
        ELSE ret.load = Stored(cookies_file, session_info_file)

C11_Witness ==
    /\ last_op = "load"
    /\ ~Unusable(session_info_file, now)
    /\ cookies_file.st = "json" /\ cookies_file.doc.items # <<>>
    /\ ret.load.some /\ ret.load.cookies # <<>>
    /\ ret.load.session_info.expires_at = isoformat(now)

\* C12: after a save_session() that wrote cookies.json and failed to open
\* session_info.json, over a store that held a well-formed record with other
\* cookies, load_session() does not return a record with the cookies of that
\* save
C12_PartialWrite ==
    [][ (last_op' = "save" /\ last_arg'.io = "info_open"
           /\ session_timeout > 0
           /\ WellFormed(session_info_file)
           /\ cookies_file' # cookies_file)
          => LET r == load_session(cookies_file', session_info_file', now')
             IN  ~(r.some /\ r.cookies = last_arg'.cookies) ]_vars

\* C13: get_session_status() and load_session() leave cookies.json and
\* session_info.json as they were
C13_StatusReadOnly ==
    [][ last_op' \in {"status", "load"} => UNCHANGED storeVars ]_vars

C13_Witness ==
    /\ last_op = "status"
    /\ ret.status.is_valid
    /\ WellFormed(session_info_file)
    /\ LastActivity(session_info_file).t < now

(***************************************************************************)
(* Properties of candidate resolution, of the steps of login() and of the  *)
(* browser handles.                                                        *)
(***************************************************************************)
\* the length of the selector list a resolution went through
ListLen(list) ==
    CASE list = "email" -> NumEmailSelectors
      [] list = "password" -> NumPasswordSelectors
      [] list = "login" -> NumLoginSelectors
      [] list = "indicator" -> NumLoginIndicators
      [] list = "search" -> NumSearchSelectors
      [] list = "search_button" -> NumSearchButtonSelectors
      [] list = "search_tab" -> NumSearchTabSelectors
      [] list = "user" -> NumUserSelectors
      [] OTHER -> 0

\* the selectors 1..n in list order
InOrder(n) == [i \in 1..n |-> i]

\* the lists whose exhaustion makes the call return False
Required == {"email", "password", "login", "search"}

\* C14: when the page of the Authenticator has an element for no selector
\* of a list, the resolution has probed every selector of the list once, in
\* list order, and has found nothing; for a list of login() or the search
\* input the call has then returned False with that resolution as its last
\* page operation
C14_Exhaustion ==
    (probes.list # "none" /\ page # "none"
       /\ \A i \in 1..ListLen(probes.list) : probes.matches[i] # "element")
        => /\ probes.tried = InOrder(ListLen(probes.list))
           /\ probes.found = 0
           /\ probes.list \in Required
                => /\ pc = "idle"
                   /\ ret.result = "False"
                   /\ ops[Len(ops)] = "resolve_" \o probes.list

C14_Witness ==
    /\ last_op = "search_user_by_nickname"
    /\ probes.list = "search" /\ probes.found = 0
    /\ Len(probes.tried) = NumSearchSelectors
    /\ \A i \in 1..NumSearchSelectors : probes.matches[i] = "timeout"
    /\ pc = "idle" /\ ret.result = "False"

\* the page operation at position i of ops is made on the element that the
\* resolution right before it returned
Follows(i, resolution) == i > 1 /\ ops[i - 1] = resolution

\* C15: a resolution probes the selectors in list order, one after the
\* other, and no selector after one that matched; the element it returns
\* is the one of the first selector the page has an element for; every fill
\* and click is a step of the caller that directly follows the resolution of
\* its own list
C15_FirstMatchWins ==
    /\ probes.list \notin {"none", "search_tab", "user"}
        => /\ probes.tried = InOrder(Len(probes.tried))
           /\ Len(probes.tried) <= ListLen(probes.list)
           /\ \A i \in 1..(Len(probes.tried) - 1) :
                  probes.matches[i] # "element"
           /\ probes.found # 0
                => /\ probes.found = Len(probes.tried)
                   /\ probes.matches[probes.found] = "element"
           /\ (\E i \in 1..ListLen(probes.list) :
                   probes.matches[i] = "element") => probes.found # 0
    /\ \A i \in 1..Len(ops) :
           /\ ops[i] = "fill_email" => Follows(i, "resolve_email")
           /\ ops[i] = "fill_password" => Follows(i, "resolve_password")
           /\ ops[i] = "click_login" => Follows(i, "resolve_login")
           /\ ops[i] = "fill_search" => Follows(i, "resolve_search")
           /\ ops[i] \in {"click_search", "press_enter"}
                => Follows(i, "resolve_search_button")

C15_Witness ==
    /\ last_op = "login" /\ probes.list = "login"
    /\ probes.found = 2 /\ probes.tried = <<1, 2>>
    /\ probes.matches[1] = "timeout" /\ probes.matches[3] = "element"
    /\ InOps("click_login")

\* C16: when a probe of login() fails with a transport error, that probe is
\* the last page operation of the call and the call has returned False
C16_TransportFailureAborts ==
    (last_op = "login" /\ probes.list # "none")
        => \A i \in 1..Len(probes.tried) :
              probes.matches[probes.tried[i]] = "crash"
                => /\ i = Len(probes.tried)
                   /\ pc = "idle"
                   /\ ret.result = "False"

\* the page operations of a login() that goes through every step
FullOps == SubmittedOps \o <<"save_session">>

IsPrefix(s, t) ==
    /\ Len(s) <= Len(t)
    /\ \A i \in 1..Len(s) : s[i] = t[i]

Count(op) == Cardinality({i \in 1..Len(ops) : ops[i] = op})

\* C17: the page operations of a login() are an initial part of the one
\* pass goto, wait, check, e-mail, password, button, wait, check, save: the
\* navigation is made once on the page of the Authenticator (an
\* Authenticator that has no page makes no page operation at all), each
\* fill, the click and the save at most once, and a call that has failed has
\* returned
C17_NoRetry ==
    last_op = "login"
        => /\ IsPrefix(ops, FullOps)
           /\ IF page = "none" THEN ops = <<>> ELSE Count("goto") = 1
           /\ Count("fill_email") <= 1 /\ Count("fill_password") <= 1
           /\ Count("click_login") <= 1 /\ Count("save_session") <= 1
           /\ ret.result = "False" => pc = "idle"

C17_Witness ==
    /\ last_op = "login" /\ pc = "idle" /\ ret.result = "False"
    /\ ops # <<>>
    /\ ops[Len(ops)] = "click_login"
    /\ Count("fill_email") = 1 /\ Count("fill_password") = 1

\* C18: once close_browser() has run, or start_browser() has raised, no
\* handle is open: the engine driver, the browser, the context and the page
\* are closed or were never created
C18_ReleasedOnEveryExit ==
    pc \in {"closed", "failed"}
        => /\ playwright # "open"
           /\ browser # "open"
           /\ context # "open"
           /\ page # "open"

\* C19: close_browser() raises nothing, leaves a handle that was never
\* created as it is, and, when no close() of the engine raises, leaves the
\* page, the context and the browser closed or never created, also when
\* they were closed before
C19_TeardownIdempotent ==
    [][ last_op' = "close_browser" =>
          /\ ~ret'.raised
          /\ page = "none" => page' = "none"
          /\ context = "none" => context' = "none"
          /\ browser = "none" => browser' = "none"
          /\ ~(\/ (last_arg'.io = "page" /\ page # "none")
               \/ (last_arg'.io = "context" /\ context # "none")
               \/ (last_arg'.io = "browser" /\ browser # "none"))
              => /\ page' = (IF page = "none" THEN "none" ELSE "closed")
                 /\ context' = (IF context = "none" THEN "none"
                                ELSE "closed")
                 /\ browser' = (IF browser = "none" THEN "none"
                                ELSE "closed") ]_vars

C19_Witness ==
    /\ last_op = "close_browser"
    /\ page = "none" /\ context = "closed" /\ browser = "closed"

\* C20: a login() whose verification held and whose _save_session() failed
\* to open or to write cookies.json has returned True
C20_SaveFailureKeepsSuccess ==
    (last_op = "login" /\ InOps("save_session") /\ last_arg.io # "ok")
        => /\ pc = "idle"
           /\ ret.result = "True"
           /\ ~ret.raised

C20_Witness ==
    /\ last_op = "login" /\ InOps("save_session")
    /\ last_arg.io = "write" /\ cookies_file = Corrupt
    /\ ret.result = "True"

\* C21: no call of the SessionManager or of the Authenticator ends by
\* raising an exception to its caller
C21_NoExceptionPropagates == ~ret.raised

\* the metadata holds expires_at = created_at + session_timeout
FixedWindow(sif, timeout) ==
    WellFormed(sif) /\ ExpiresAt(sif).t = CreatedAt(sif).t + timeout

\* C26: the metadata written by a save_session() has expires_at =
\* created_at + session_timeout and last_activity = created_at, and the
\* first relation is kept by update_last_activity(), load_session(),
\* is_session_valid() and get_session_status()
C26_CreationInvariant ==
    [][ /\ (last_op' = "save" /\ last_arg'.io = "ok")
            => /\ FixedWindow(session_info_file', session_timeout)
               /\ LastActivity(session_info_file').t
                      = CreatedAt(session_info_file').t
        /\ (/\ last_op' \in {"touch", "load", "valid", "status"}
            /\ FixedWindow(session_info_file, session_timeout))
            => FixedWindow(session_info_file', session_timeout) ]_vars

\* the latest step of login() ended with a call of _is_logged_in(), or with
\* the _save_session() that follows a call that held
Checked == last_op = "login" /\ ops \in {FirstCheckOps, SubmittedOps, FullOps}

\* what that call of _is_logged_in() returned, as login() went on
CheckReturned ==
    \/ ops = FirstCheckOps /\ pc = "idle"
    \/ ops = FullOps

\* the URL is a page of the site other than the login page
UrlTier == ~url.login /\ url.base

\* the page had an element for an indicator that was probed
MarkerResolved ==
    /\ probes.list = "indicator"
    /\ \E i \in 1..Len(probes.tried) : probes.matches[probes.tried[i]] = "element"

\* C23: _is_logged_in() returns True exactly when the URL is a page of the
\* site other than the login page or the page has an element for one of the
\* login indicators; in the first case it probes no indicator, and it
\* returns False only after it has probed every indicator, in list order
C23_TwoTiers ==
    Checked
        => /\ CheckReturned <=> (UrlTier \/ MarkerResolved)
           /\ UrlTier => probes = NoProbes
           /\ ~UrlTier => probes.list = "indicator"
           /\ ~CheckReturned
                  => /\ probes.tried = InOrder(NumLoginIndicators)
                     /\ \A i \in 1..NumLoginIndicators :
                            probes.matches[i] # "element"

C23_Witness ==
    /\ Checked /\ CheckReturned
    /\ ~UrlTier
    /\ probes.tried = InOrder(NumLoginIndicators)
    /\ probes.matches[NumLoginIndicators] = "element"

\* C24: a call of _is_logged_in() navigates, fills, clicks and writes
\* nothing: the step of login() that makes it leaves the URL, the cookies of
\* the context, the browser handles and session_info.json as they were, adds
\* no page operation but the check itself and the _save_session() of a
\* login() that succeeded, and leaves cookies.json to that _save_session()
C24_ProbeOnly ==
    [][ (pc \in {"check", "verify"} /\ last_op' = "login")
            => /\ url' = url
               /\ context_cookies' = context_cookies
               /\ session_info_file' = session_info_file
               /\ <<playwright, browser, context, page>>'
                      = <<playwright, browser, context, page>>
               /\ \/ ops' = ops \o <<"is_logged_in">> /\ cookies_file' = cookies_file
                  \/ /\ pc = "verify"
                     /\ ops' = ops \o <<"is_logged_in", "save_session">> ]_vars

C24_Witness ==
    /\ Checked
    /\ ops = FirstCheckOps
    /\ probes.tried = InOrder(NumLoginIndicators)
    /\ url.login
    /\ cookies_file.st = "json"
    /\ context_cookies # <<>>

NavOps == {"navigate_to_user_search", "click_user_profile"}

\* the page had an element for no selector of the list probed last
NoneResolves ==
    \A i \in 1..ListLen(probes.list) : probes.matches[i] # "element"

\* the last two page operations of the call
EndsWith(a, b) ==
    Len(ops) >= 2 /\ ops[Len(ops) - 1] = a /\ ops[Len(ops)] = b

\* C25: navigate_to_user_search() and click_user_profile() return True only
\* when the last selector probed had an element, that element was clicked
\* and the wait for network idle that followed completed, as the last page
\* operations of the call; search_user_by_nickname() returns True only when
\* the search input was resolved and filled, the search was submitted and
\* the wait completed; each returns False when the page has an element for no
\* selector of its list, and has then filled and clicked nothing
C25_NavigationOutcome ==
    /\ last_op \in NavOps
        => /\ ret.result \in {"True", "False"}
           /\ ret.result = "True"
                  => /\ probes.found # 0
                     /\ probes.found = probes.tried[Len(probes.tried)]
                     /\ probes.matches[probes.found] = "element"
                     /\ EndsWith("click", "settle")
           /\ NoneResolves => (ret.result = "False" /\ ops = <<>>)
    /\ (last_op = "search_user_by_nickname" /\ pc = "idle")
        => /\ ret.result \in {"True", "False"}
           /\ ret.result = "True"
                  => /\ Len(ops) = 5
                     /\ ops[1] = "resolve_search" /\ ops[2] = "fill_search"
                     /\ ops[3] = "resolve_search_button"
                     /\ ops[4] \in {"click_search", "press_enter"}
                     /\ ops[5] = "settle"
           /\ (probes.list = "search" /\ NoneResolves)
                  => /\ ret.result = "False"
                     /\ ops = (IF page = "none" THEN <<>>
                               ELSE <<"resolve_search">>)

C25_Witness ==
    /\ last_op = "navigate_to_user_search"
    /\ ret.result = "True"
    /\ probes.found = 2 /\ probes.tried = <<1, 2>>
    /\ ops = <<"click_raises", "click", "settle">>

\* C27: after a navigation call that returned True while session_info.json
\* holds a record, last_activity is not earlier than the start of the call
\* (the clock does not advance while the Authenticator is in use, so the
\* call started at the time now)
C27_ActivityTouched ==
    (/\ last_op \in NavOps \cup {"search_user_by_nickname"}
     /\ pc = "idle" /\ ret.result = "True"
     /\ WellFormed(session_info_file))
        => LastActivity(session_info_file).t >= now

\* C29: no path of login() persists or logs the credentials: a step of
\* login() writes nothing but the cookies of the context to cookies.json,
\* leaves session_info.json alone, and emits no log field that holds the
\* e-mail address or the password
C29_CredentialsConfined ==
    [][ last_op' = "login"
            => /\ log' \cap {Email, Password} = {}
               /\ session_info_file' = session_info_file
               /\ cookies_file' \in {cookies_file, Corrupt,
                                     JsonFile(DumpCookies(context_cookies'))}
       ]_vars

\* login() is between two of its steps
InLogin == pc \in {"check", "email", "password", "submit", "verify"}

\* the waits of a login() so far, but for the probes of the indicators: one
\* navigation, two waits for network idle, one resolution per field list,
\* each of which probes a selector of its list once
BoundedWaits ==
    /\ Count("goto") <= 1
    /\ Count("settle") <= 2
    /\ Count("resolve_email") <= 1
    /\ Count("resolve_password") <= 1
    /\ Count("resolve_login") <= 1
    /\ Len(probes.tried) <= ListLen(probes.list)
    /\ \A i, j \in 1..Len(probes.tried) :
           probes.tried[i] = probes.tried[j] => i = j

\* C30 as stated: every login() that has started returns, after at most one
\* navigation, two waits for network idle and one probe of each selector of
\* the e-mail, password, button and indicator lists
C30_BoundedLogin ==
    /\ [](last_op = "login"
            => (BoundedWaits /\ marker_probes <= NumLoginIndicators))
    /\ InLogin ~> (pc = "idle" /\ ret.result \in {"True", "False"})

\* C30 amended: the indicators are probed by each of the two calls of
\* _is_logged_in(), so each of them is probed at most twice
C30_BoundedLoginAmended ==
    /\ [](last_op = "login"
            => (BoundedWaits /\ marker_probes <= 2 * NumLoginIndicators))
    /\ InLogin ~> (pc = "idle" /\ ret.result \in {"True", "False"})

C30_Witness ==
    /\ last_op = "login" /\ pc = "idle"
    /\ ret.result = "False"
    /\ ops = SubmittedOps
    /\ marker_probes = 2 * NumLoginIndicators

\* a call of the Authenticator made by a command
CoreOps ==
    {"login", "navigate_to_user_search", "search_user_by_nickname",
     "click_user_profile"}

\* C22: a login or search_user command whose login(), navigation, search or
\* profile step returned False exits with a status other than 0, the
\* command exits with 0 only when every step it made returned True, and a
\* step that returned False is followed by no other call but the end of the command
C22_FailureExitsNonZero ==
    [][ (command \in LoginCommands) =>
          ( /\ (last_op' = "exit" /\ last_op \in CoreOps)
                 => (ret'.result = "exit_0" <=> ret.result = "True")
            /\ (last_op' = "exit" /\ last_op \notin CoreOps)
                 => ret'.result # "exit_0"
            /\ (\E op \in CoreOps : Returned(op, "False"))
                 => last_op' = "exit" ) ]_vars

\* C28: once two concurrent save_session() calls have both returned,
\* cookies.json and session_info.json hold what one and the same of the two
\* calls wrote
C28_LastWriteWins ==
    (\A w \in Writers : writers[w].at = "done")
        => \E w \in Writers :
               /\ cookies_file = JsonFile(DumpCookies(writers[w].cookies))
               /\ session_info_file = writers[w].wrote

\* op a occurs in ops before every occurrence of op b
Before(a, b) ==
    \A j \in 1..Len(ops) :
        ops[j] = b => \E i \in 1..(j - 1) : ops[i] = a

\* C31: in a login() the e-mail is filled before the password list is
\* probed, the password is filled before the button list is probed, the
\* button is clicked after both fills, and the second _is_logged_in()
\* directly follows the click and the wait for network idle after it
C31_StepOrder ==
    last_op = "login"
        => /\ Before("fill_email", "resolve_password")
           /\ Before("fill_password", "resolve_login")
           /\ Before("fill_email", "click_login")
           /\ Before("fill_password", "click_login")
           /\ \A j \in 1..Len(ops) :
                  (ops[j] = "is_logged_in" /\ j > Len(FirstCheckOps))
                      => /\ ops[j - 1] = "settle"
                         /\ ops[j - 2] = "click_login"

C31_Witness ==
    /\ last_op = "login" /\ pc = "idle"
    /\ ops = FullOps
    /\ ret.result = "True"

\* C32: the search_user command calls navigate_to_user_search() only after
\* login() returned True, search_user_by_nickname() only after the
\* navigation returned True and click_user_profile() only after the search
\* returned True, all on the browser, context and page that start_browser()
\* opened; after a login() that returned False it makes no navigation call;
\* and when the command ends, page, context and browser are closed
C32_SearchUserChain ==
    [][ command = "search_user"
            => /\ last_op' = "navigate_to_user_search"
                      => Returned("login", "True")
               /\ (last_op' = "search_user_by_nickname" /\ pc = "idle")
                      => Returned("navigate_to_user_search", "True")
               /\ last_op' = "click_user_profile"
                      => Returned("search_user_by_nickname", "True")
               /\ last_op' \in CoreOps
                      => <<browser, context, page>>'
                             = <<browser, context, page>>
               /\ Returned("login", "False") => last_op' = "exit"
               /\ (last_op' = "exit" /\ last_op \in CoreOps)
                      => /\ page' = "closed"
                         /\ context' = "closed"
                         /\ browser' = "closed" ]_vars

\* C33: one call of navigate_to_user_search() or click_user_profile()
\* clicks at most one element, and probes no selector after one whose
\* element it clicked, also when the click or the wait after it raised
C33_SingleClick ==
    last_op \in NavOps
        => /\ Count("click") + Count("click_raises") <= 1
           /\ \A i \in 1..(Len(probes.tried) - 1) :
                  probes.matches[probes.tried[i]] # "element"

\* C34: load_session() returns no record whose metadata is empty or has no
\* expires_at: every record it returns carries an expires_at that parses and
\* is not before the clock value of the call, also when another process
\* saves or clears between the validity check and the reads
C34_LoadedRecordValid ==
    (last_op = "load" /\ ret.load.some)
        => LET expires_at ==
                   fromisoformat(Get(ret.load.session_info.expires_at,
                                     EmptyStr))
           IN  /\ ret.load.session_info # NoInfo
               /\ expires_at.ok
               /\ last_arg.t <= expires_at.t

\* C35: over a store whose metadata was written by a save_session(), a
\* login() that saved its session leaves a pair of one writer: a record that
\* load_session() returns with the metadata of that save_session() has the
\* cookies of that save_session() too
C35_PairConsistency ==
    LET saved == SavedAtStart(session_timeout)
        record == load_session(cookies_file, session_info_file, now)
    IN  (last_op = "login" /\ pc = "idle" /\ InOps("save_session")
           /\ record.some
           /\ record.session_info = LoadInfo(saved.session_info_file.doc))
            => record.cookies = LoadCookies(saved.cookies_file.doc)

\* C36 as stated: at one clock value load_session() returns a record exactly
\* when get_session_status() reports is_valid True, whatever the two files
\* hold
C36_LoadStatusAgree ==
    /\ last_op = "load"
           => (ret.load.some
                 <=> get_session_status(session_info_file, last_arg.t,
                                        last_arg.t).is_valid)
    /\ last_op = "status"
           => (ret.status.is_valid
                 <=> load_session(cookies_file, session_info_file,
                                  last_arg.t).some)

\* the store states in which neither call fails on something the other one
\* never reads: cookies.json is absent or parses, and metadata that parses
\* has a created_at and a last_activity that parse
BothReadable ==
    /\ cookies_file.st # "corrupt"
    /\ session_info_file.st = "json"
           => /\ CreatedAt(session_info_file).ok
              /\ LastActivity(session_info_file).ok

\* C36 amended: load_session() and get_session_status() agree at one clock
\* value in every store state in which cookies.json is absent or parses and
\* the created_at and last_activity of parsable metadata parse
C36_LoadStatusAgreeAmended ==
    BothReadable
        => /\ last_op = "load"
                  => (ret.load.some
                        <=> get_session_status(session_info_file, last_arg.t,
                                               last_arg.t).is_valid)
           /\ last_op = "status"
                  => (ret.status.is_valid
                        <=> load_session(cookies_file, session_info_file,
                                         last_arg.t).some)

C36_Witness ==
    /\ last_op = "status" /\ ret.status.is_valid
    /\ cookies_file.st = "json" /\ session_info_file.st = "json"
    /\ load_session(cookies_file, session_info_file, last_arg.t).some
    /\ load_session(cookies_file, session_info_file, last_arg.t).cookies # <<>>

\* C37 as stated: update_last_activity() creates nothing when
\* session_info.json is absent, and the validity that is_session_valid(),
\* load_session() and get_session_status() report at the clock value of the
\* call is the same before and after it
C37_TouchKeepsValidity ==
    [][ last_op' = "touch"
            => /\ session_info_file.st = "absent"
                      => session_info_file'.st = "absent"
               /\ cookies_file' = cookies_file
               /\ is_session_valid(session_info_file', now)
                    = is_session_valid(session_info_file, now)
               /\ load_session(cookies_file', session_info_file', now).some
                    = load_session(cookies_file, session_info_file, now).some
               /\ get_session_status(session_info_file', now, now).is_valid
                    = get_session_status(session_info_file, now, now).is_valid
       ]_vars

\* C37 amended: update_last_activity() creates nothing when
\* session_info.json is absent and never turns metadata that
\* is_session_valid() rejects into metadata it accepts; a call that
\* completes its write leaves the validity of is_session_valid() and
\* load_session() as it was, and that of get_session_status() too unless the
\* metadata had no last_activity that parses; a call whose json.dump fails
\* leaves metadata that is_session_valid() rejects
C37_TouchKeepsValidityAmended ==
    [][ last_op' = "touch"
            => /\ session_info_file.st = "absent"
                      => session_info_file'.st = "absent"
               /\ cookies_file' = cookies_file
               /\ ~is_session_valid(session_info_file, now)
                      => /\ ~is_session_valid(session_info_file', now)
                         /\ ~load_session(cookies_file', session_info_file',
                                          now).some
               /\ (last_arg'.io = "write" /\ session_info_file.st = "json")
                      => ~is_session_valid(session_info_file', now)
               /\ last_arg'.io = "ok"
                      => /\ is_session_valid(session_info_file', now)
                              = is_session_valid(session_info_file, now)
                         /\ load_session(cookies_file', session_info_file',
                                         now).some
                              = load_session(cookies_file, session_info_file,
                                             now).some
               /\ (last_arg'.io = "ok"
                     /\ (session_info_file.st = "json"
                            => LastActivity(session_info_file).ok))
                      => get_session_status(session_info_file', now,
                                            now).is_valid
                           = get_session_status(session_info_file, now,
                                                now).is_valid
       ]_vars

\* an expired record was touched and is still expired
C37_Witness ==
    /\ last_op = "touch" /\ last_arg.io = "ok" /\ last_arg.before = "json"
    /\ WellFormed(session_info_file)
    /\ LastActivity(session_info_file).t = now
    /\ now > ExpiresAt(session_info_file).t
    /\ ~is_session_valid(session_info_file, now)
    /\ ~get_session_status(session_info_file, now, now).is_valid

\* C38: a get_session_status() that reports is_valid True reports a
\* remaining_seconds that is not negative, equals expires_at minus the clock
\* value it read (0 when that is negative) and is at most expires_at minus
\* created_at, which a save_session() makes at most session_timeout plus the
\* time that passed inside it; a report with is_valid False has no
\* remaining_seconds
C38_RemainingSeconds ==
    [][ /\ (last_op' = "save" /\ ~ret'.raised)
            => /\ WellFormed(session_info_file')
               /\ ExpiresAt(session_info_file').t
                    - CreatedAt(session_info_file').t
                      <= session_timeout + (now' - now)
        /\ (last_op' = "status" /\ ret'.status.is_valid)
            => /\ ret'.status.remaining_seconds >= 0
               /\ ret'.status.remaining_seconds
                    = Max(0, ExpiresAt(session_info_file).t - now')
               /\ ret'.status.remaining_seconds
                    <= ExpiresAt(session_info_file).t
                         - CreatedAt(session_info_file).t
               /\ "remaining_seconds" \in ret'.status.keys
        /\ (last_op' = "status" /\ ~ret'.status.is_valid)
            => "remaining_seconds" \notin ret'.status.keys
      ]_vars

\* a record that expired between the two clock reads of get_session_status()
C38_Witness ==
    /\ last_op = "status" /\ ret.status.is_valid
    /\ WellFormed(session_info_file)
    /\ last_arg.t <= ExpiresAt(session_info_file).t
    /\ ExpiresAt(session_info_file).t < now
    /\ ret.status.remaining_seconds = 0

\* C39: a search_user_by_nickname() that filled the input and went on makes
\* one submission by one means: a click on the first button candidate that
\* resolved, or Enter when none resolved, never both; it returns True only
\* after that submission and the wait for network idle that follows it
C39_SubmittedOnce ==
    (last_op = "search_user_by_nickname" /\ pc = "idle"
       /\ InOps("resolve_search_button"))
        => /\ InOps("fill_search")
           /\ Count("click_search") + Count("press_enter") = 1
           /\ (InOps("click_search") <=> probes.found # 0)
           /\ (InOps("press_enter")
                 <=> \A i \in 1..NumSearchButtonSelectors :
                         probes.matches[i] # "element")
           /\ probes.found # 0
                => /\ probes.matches[probes.found] = "element"
                   /\ \A i \in 1..(probes.found - 1) :
                          probes.matches[i] # "element"
           /\ Before("fill_search", "click_search")
           /\ Before("fill_search", "press_enter")
           /\ Count("settle") <= 1
           /\ ret.result = "True"
                => \/ EndsWith("click_search", "settle")
                   \/ EndsWith("press_enter", "settle")

\* no button resolved and the search went out with Enter
C39_Witness ==
    /\ last_op = "search_user_by_nickname" /\ pc = "idle"
    /\ ret.result = "True"
    /\ probes.list = "search_button" /\ probes.found = 0
    /\ ops = <<"resolve_search", "fill_search", "resolve_search_button",
               "press_enter", "settle">>

====
